---- MODULE Spec2Model ----
(***************************************************************************)
(* Log-indexing core of claude-run (src/api/storage.ts): the session       *)
(* index, the history reconciler, the session directory and its cache,     *)
(* and the request coalescer.                                               *)
(*                                                                         *)
(* Strings that the code inspects character by character (project paths,   *)
(* directory names) are sequences of one-character strings.                *)
(***************************************************************************)
EXTENDS Integers, Sequences, FiniteSets, TLC

VARIABLES
    history,        \* history.jsonl on disk: the parsed entries, in file order
    dirs,           \* the projects directory on disk: its entries, in listing order
    sessionCache,   \* storage.ts:124  sessionCache (null = NullCache)
    resolved,       \* what findSessionByTimestamp returned for the first history entry
    fileIndex,      \* storage.ts:122  fileIndex: session id -> path (NoPath = no entry)
    building,       \* directories a running buildFileIndex has still to list
    finding,        \* per id, the findSessionFile calls that missed and are scanning
    findLog,        \* calls and scans of findSessionFile so far, and its last result
    historyCache,   \* storage.ts:123  historyCache (null = NullHistory)
    pendingRequests,\* storage.ts:125  key -> the promise stored (its launching task), 0 = none
    flight,         \* per task, the fn() execution its dedupe call launched
    tasks,          \* the callers of the exported functions, one call each
    log,            \* the session log on disk: its lines, in file order
    found,          \* whether findSessionFile finds a path for the session read
    fullResult,     \* what the last getConversation call returned
    streamResult,   \* what the last getConversationStream call returned
    reader,         \* a client tailing the log: its offset and what it received
    writer,         \* the external tool writing the log: what it did to it so far
    pricingCall,    \* a call of the pricing functions: its arguments and what they returned
    usageInput,     \* what the usage functions read: the session list and the conversations
    usageResult,    \* what the last call of a usage function returned
    root,           \* the root directory: what of it exists, and the call made on it
    view            \* a session view of the web client: its state, refs and streams

listVars == <<history, sessionCache, resolved>>
indexVars == <<fileIndex, building, finding, findLog>>
coVars == <<historyCache, pendingRequests, flight, tasks>>
storeVars == <<log, found, fullResult, streamResult, reader, writer>>
usageVars == <<pricingCall, usageInput, usageResult>>
vars == <<history, dirs, sessionCache, resolved, fileIndex, building, finding, findLog,
          historyCache, pendingRequests, flight, tasks,
          log, found, fullResult, streamResult, reader, writer,
          pricingCall, usageInput, usageResult, root, view>>

-----------------------------------------------------------------------------
(* Bounds of the model *)

MaxHistory == 2     \* entries in history.jsonl
MaxFiles == 2       \* files in the directory a history entry is resolved against
MaxTime == 3        \* modification times and entry timestamps there: 1..MaxTime
MaxFindCalls == 3   \* findSessionFile calls in a run of the session index
MaxBuilds == 1      \* buildFileIndex runs in a run of the session index
MaxNewLogs == 1     \* session logs the external tool creates during a run
NumTasks == 2       \* concurrent callers of the exported functions

-----------------------------------------------------------------------------
(* Values *)

Ids == {"s1", "s2"}
AllIds == Ids \cup {"s3"}
NoId == "undefined"
Times == 1..MaxTime
ListTimes == {1, 2}

PathA == <<"/", "a">>
PathDotA == <<".", "a">>
PathB == <<"/", "b">>
PathADotB == <<"/", "a", ".", "b">>
NoProject == <<"undefined">>
EmptyPath == <<>>
Paths == {PathA, PathDotA, PathB}

DirA == <<"-", "a">>
DirB == <<"-", "b">>
DirAB == <<"-", "a", "-", "b">>

NoMeta == [present |-> FALSE, display |-> "", timestamp |-> 0, project |-> EmptyPath]
NullCache == [set |-> FALSE, list |-> <<>>]
NotResolved == [done |-> FALSE, id |-> NoId]
NoPath == <<>>
EmptyIndex == [id \in Ids |-> NoPath]
IdleFinding == [id \in Ids |-> 0]
NullHistory == [set |-> FALSE, entries |-> <<>>]
TaskIds == 1..NumTasks
KeySessions == <<"getSessions">>
ConvKey(id) == <<"getConversation", id>>
Keys == {KeySessions} \cup { ConvKey(id) : id \in Ids }
NoKey == <<>>
NoRead == [by |-> 0, id |-> NoId, path |-> NoPath]
NoOutcome == [ok |-> TRUE, list |-> <<>>, read |-> NoRead]
IdleFlight == [stage |-> "idle", key |-> NoKey, entries |-> <<>>, path |-> NoPath,
               outcome |-> NoOutcome]
NewTask == [op |-> "none", arg |-> NoId, pc |-> "idle", key |-> NoKey, awaits |-> 0,
            result |-> NoOutcome, list |-> <<>>, k |-> 0,
            consumed |-> [id \in Ids |-> 0], computed |-> FALSE,
            over |-> {}, early |-> {}, cacheAtCall |-> NullCache,
            staleAtCall |-> FALSE]
NoFindLog == [calls |-> 0, scans |-> [id \in Ids |-> 0], builds |-> 0, created |-> 0,
              lastId |-> NoId, lastResult |-> NoPath]

Abs(x) == IF x < 0 THEN -x ELSE x

-----------------------------------------------------------------------------
(* Path helpers *)

\* storage.ts:149  path.replace(/[/.]/g, "-")
encodeProjectPath(path) ==
    [i \in 1..Len(path) |-> IF path[i] \in {"/", "."} THEN "-" ELSE path[i]]

\* str.split(sep).filter(Boolean): the non-empty segments, in order
RECURSIVE SplitFrom(_, _, _, _, _)
SplitFrom(str, sep, i, cur, acc) ==
    IF i > Len(str)
    THEN IF cur = <<>> THEN acc ELSE Append(acc, cur)
    ELSE IF str[i] = sep
         THEN SplitFrom(str, sep, i + 1, <<>>, IF cur = <<>> THEN acc ELSE Append(acc, cur))
         ELSE SplitFrom(str, sep, i + 1, Append(cur, str[i]), acc)

SplitNonEmpty(str, sep) == SplitFrom(str, sep, 1, <<>>, <<>>)

\* storage.ts:153
getProjectName(projectPath) ==
    LET parts == SplitNonEmpty(projectPath, "/")
    IN IF parts # <<>> THEN parts[Len(parts)] ELSE projectPath

\* storage.ts:158
projectDirToDisplayName(dirName) ==
    LET parts == SplitNonEmpty(dirName, "-")
    IN IF parts # <<>> THEN parts[Len(parts)] ELSE dirName

-----------------------------------------------------------------------------
(* The file system as the code sees it *)

\* index of the directory entry called name in the projects directory, 0 if none
DirIndex(ds, name) ==
    IF \E i \in 1..Len(ds) : ds[i].name = name
    THEN CHOOSE i \in 1..Len(ds) : ds[i].name = name
    ELSE 0

\* readdir(join(projectsDir, name)) succeeds: the entry exists and is a listable directory
CanList(ds, name) == DirIndex(ds, name) # 0 /\ ds[DirIndex(ds, name)].readable

\* files.filter((f) => f.endsWith(".jsonl"))
JsonlFiles(files) == SelectSeq(files, LAMBDA f : f.jsonl)

-----------------------------------------------------------------------------
(* History reconciler *)

\* a scan in which a later file of equal distance replaces the earlier one
RECURSIVE ClosestFrom_lastWins(_, _, _, _, _)
ClosestFrom_lastWins(fileStats, timestamp, i, closestFile, closestTimeDiff) ==
    IF i > Len(fileStats) THEN closestFile
    ELSE LET timeDiff == Abs(fileStats[i].mtime - timestamp)
         IN IF closestFile = NoId \/ timeDiff <= closestTimeDiff
            THEN ClosestFrom_lastWins(fileStats, timestamp, i + 1, fileStats[i].id, timeDiff)
            ELSE ClosestFrom_lastWins(fileStats, timestamp, i + 1, closestFile,
                                      closestTimeDiff)

\* storage.ts:302-311: the scan for the closest modification time
RECURSIVE ClosestFrom(_, _, _, _, _)
ClosestFrom(fileStats, timestamp, i, closestFile, closestTimeDiff) ==
    IF i > Len(fileStats) THEN closestFile
    ELSE LET timeDiff == Abs(fileStats[i].mtime - timestamp)
         IN IF closestFile = NoId \/ timeDiff < closestTimeDiff
            THEN ClosestFrom(fileStats, timestamp, i + 1, fileStats[i].id, timeDiff)
            ELSE ClosestFrom(fileStats, timestamp, i + 1, closestFile, closestTimeDiff)

\* storage.ts:285
findSessionByTimestamp(ds, encodedProject, timestamp) ==
    IF ~CanList(ds, encodedProject) THEN NoId
    ELSE ClosestFrom(JsonlFiles(ds[DirIndex(ds, encodedProject)].files), timestamp, 1, NoId, 0)

-----------------------------------------------------------------------------
(* Session directory *)

\* a loop that pushes a session for every entry that resolves, seen or not
RECURSIVE HistoryLoop_everyEntry(_, _, _, _)
HistoryLoop_everyEntry(entries, ds, i, acc) ==
    IF i > Len(entries) \/ acc.threw THEN acc
    ELSE LET entry == entries[i]
             sessionId == IF entry.sessionId # NoId THEN entry.sessionId
                          ELSE findSessionByTimestamp(ds, encodeProjectPath(entry.project),
                                                      entry.timestamp)
         IN IF entry.isNull \/ (entry.sessionId = NoId /\ entry.project = NoProject)
            THEN [acc EXCEPT !.threw = TRUE]
            ELSE IF sessionId = NoId
            THEN HistoryLoop_everyEntry(entries, ds, i + 1, acc)
            ELSE IF entry.project = NoProject
            THEN [acc EXCEPT !.threw = TRUE]
            ELSE HistoryLoop_everyEntry(entries, ds, i + 1,
                    [threw |-> FALSE,
                     seenIds |-> acc.seenIds \cup {sessionId},
                     sessions |-> Append(acc.sessions,
                        [id |-> sessionId,
                         display |-> entry.display,
                         timestamp |-> entry.timestamp,
                         project |-> entry.project,
                         projectName |-> getProjectName(entry.project)])])

\* storage.ts:378-398: one iteration per history entry. Reading a property of a
\* null entry, and calling replace or split on a missing project, throw a TypeError
\* that ends the loop.
RECURSIVE HistoryLoop(_, _, _, _)
HistoryLoop(entries, ds, i, acc) ==
    IF i > Len(entries) \/ acc.threw THEN acc
    ELSE LET entry == entries[i]
             sessionId == IF entry.sessionId # NoId THEN entry.sessionId
                          ELSE findSessionByTimestamp(ds, encodeProjectPath(entry.project),
                                                      entry.timestamp)
         IN IF entry.isNull \/ (entry.sessionId = NoId /\ entry.project = NoProject)
            THEN [acc EXCEPT !.threw = TRUE]
            ELSE IF sessionId = NoId \/ sessionId \in acc.seenIds
            THEN HistoryLoop(entries, ds, i + 1, acc)
            ELSE IF entry.project = NoProject
            THEN [acc EXCEPT !.threw = TRUE]
            ELSE HistoryLoop(entries, ds, i + 1,
                    [threw |-> FALSE,
                     seenIds |-> acc.seenIds \cup {sessionId},
                     sessions |-> Append(acc.sessions,
                        [id |-> sessionId,
                         display |-> entry.display,
                         timestamp |-> entry.timestamp,
                         project |-> entry.project,
                         projectName |-> getProjectName(entry.project)])])

\* storage.ts:419-461: the files of one directory, in listing order
RECURSIVE ScanFiles(_, _, _, _, _)
ScanFiles(dirName, files, seenIds, i, acc) ==
    IF i > Len(files) THEN acc
    ELSE LET f == files[i]
         IN IF f.id \in seenIds THEN ScanFiles(dirName, files, seenIds, i + 1, acc)
            ELSE IF f.meta.present
            THEN ScanFiles(dirName, files, seenIds, i + 1,
                    [resolved |-> IF f.meta.project # EmptyPath THEN f.meta.project
                                  ELSE acc.resolved,
                     results |-> Append(acc.results,
                        [hasCwd |-> f.meta.project # EmptyPath,
                         session |->
                            [id |-> f.id,
                             display |-> f.meta.display,
                             timestamp |-> f.meta.timestamp,
                             project |-> IF f.meta.project # EmptyPath THEN f.meta.project
                                         ELSE dirName,
                             projectName |-> IF f.meta.project # EmptyPath
                                             THEN getProjectName(f.meta.project)
                                             ELSE projectDirToDisplayName(dirName)]])])
            ELSE ScanFiles(dirName, files, seenIds, i + 1,
                    [resolved |-> acc.resolved,
                     results |-> Append(acc.results,
                        [hasCwd |-> FALSE,
                         session |->
                            [id |-> f.id,
                             display |-> "Untitled conversation",
                             timestamp |-> f.mtime,
                             project |-> dirName,
                             projectName |-> projectDirToDisplayName(dirName)]])])

\* storage.ts:410-466: one directory of the fan-out
ScanDir(dir, seenIds) ==
    IF ~dir.readable THEN [resolved |-> EmptyPath, results |-> <<>>]
    ELSE ScanFiles(dir.name, JsonlFiles(dir.files), seenIds, 1,
                   [resolved |-> EmptyPath, results |-> <<>>])

\* a merge that pushes every result, seen or not
RECURSIVE MergeResults_noSeenCheck(_, _, _, _)
MergeResults_noSeenCheck(results, resolvedPath, i, acc) ==
    IF i > Len(results) THEN acc
    ELSE MergeResults_noSeenCheck(results, resolvedPath, i + 1,
            [threw |-> FALSE,
             seenIds |-> acc.seenIds \cup {results[i].session.id},
             sessions |-> Append(acc.sessions, results[i].session)])

\* a merge that leaves every session the project its own log gave it
RECURSIVE MergeResults_noBackfill(_, _, _, _)
MergeResults_noBackfill(results, resolvedPath, i, acc) ==
    IF i > Len(results) THEN acc
    ELSE IF results[i].session.id \in acc.seenIds
    THEN MergeResults_noBackfill(results, resolvedPath, i + 1, acc)
    ELSE MergeResults_noBackfill(results, resolvedPath, i + 1,
            [threw |-> FALSE,
             seenIds |-> acc.seenIds \cup {results[i].session.id},
             sessions |-> Append(acc.sessions, results[i].session)])

\* storage.ts:473-482: backfill and merge of one directory's results
RECURSIVE MergeResults(_, _, _, _)
MergeResults(results, resolvedPath, i, acc) ==
    IF i > Len(results) THEN acc
    ELSE LET r == results[i]
             session == IF ~r.hasCwd /\ resolvedPath # EmptyPath
                        THEN [r.session EXCEPT !.project = resolvedPath,
                                               !.projectName = getProjectName(resolvedPath)]
                        ELSE r.session
         IN IF session.id \in acc.seenIds
            THEN MergeResults(results, resolvedPath, i + 1, acc)
            ELSE MergeResults(results, resolvedPath, i + 1,
                    [threw |-> FALSE,
                     seenIds |-> acc.seenIds \cup {session.id},
                     sessions |-> Append(acc.sessions, session)])

\* storage.ts:402-486: discovery over all directories; every directory is scanned
\* against the ids claimed by the history, then the results are merged in order
RECURSIVE DiscoverLoop(_, _, _, _)
DiscoverLoop(ds, historySeen, i, acc) ==
    IF i > Len(ds) THEN acc
    ELSE LET scanned == ScanDir(ds[i], historySeen)
         IN DiscoverLoop(ds, historySeen, i + 1,
                         MergeResults(scanned.results, scanned.resolved, 1, acc))

\* a listing that was never sorted
sortSessions_unsorted(list) == list

\* sessions.sort((a, b) => b.timestamp - a.timestamp): stable, descending
RECURSIVE InsertDesc(_, _)
InsertDesc(sorted, s) ==
    IF sorted = <<>> THEN <<s>>
    ELSE IF Head(sorted).timestamp >= s.timestamp
         THEN <<Head(sorted)>> \o InsertDesc(Tail(sorted), s)
         ELSE <<s>> \o sorted

RECURSIVE SortFrom(_, _, _)
SortFrom(list, i, acc) ==
    IF i > Len(list) THEN acc ELSE SortFrom(list, i + 1, InsertDesc(acc, list[i]))

sortSessions(list) == SortFrom(list, 1, <<>>)

\* storage.ts:371-398
HistorySessions(entries, ds) ==
    HistoryLoop(entries, ds, 1, [threw |-> FALSE, seenIds |-> {}, sessions |-> <<>>])

\* storage.ts:371-490: what a getSessions() computation produces: the sorted list,
\* or the exception the history loop threw
computeSessions(entries, ds) ==
    LET fromHistory == HistorySessions(entries, ds)
        merged == DiscoverLoop(ds, fromHistory.seenIds, 1, fromHistory)
    IN IF fromHistory.threw THEN [threw |-> TRUE, list |-> <<>>]
       ELSE [threw |-> FALSE, list |-> sortSessions(merged.sessions)]

\* no caller, nothing in flight, nothing loaded
CoIdle ==
    /\ historyCache = NullHistory
    /\ pendingRequests = [key \in Keys |-> 0]
    /\ flight = [t \in TaskIds |-> IdleFlight]
    /\ tasks = [t \in TaskIds |-> NewTask]

\* no pricing or usage function has been called
NoPricingCall == [done |-> FALSE]
NoUsageInput == [sessions |-> <<>>]
NoUsageResult == [op |-> "none"]

\* no session view is rendered
NoView == [phase |-> "none"]

\* no call on a root directory with something missing
NoRoot == [claudeDir |-> TRUE, historyLog |-> TRUE, projectsDir |-> TRUE,
           called |-> FALSE, rejected |-> FALSE]

UsageIdle ==
    /\ pricingCall = NoPricingCall
    /\ usageInput = NoUsageInput
    /\ usageResult = NoUsageResult
    /\ root = NoRoot
    /\ view = NoView

\* messages and results of the conversation store
NoFullResult == [done |-> FALSE, ok |-> TRUE, messages |-> <<>>]
NoStreamResult ==
    [done |-> FALSE, ok |-> TRUE, fromOffset |-> 0, fileSize |-> 0, consumed |-> 0,
     messages |-> <<>>, nextOffset |-> 0]
IdleReader ==
    [pc |-> "idle", offset |-> 0, fileSize |-> 0, received |-> <<>>,
     stopped |-> FALSE, blocked |-> FALSE, wasBlocked |-> FALSE]
IdleWriter == [appended |-> 0, edited |-> FALSE, grown |-> FALSE]

\* no session log is being read
StoreIdle ==
    /\ log = <<>>
    /\ found = FALSE
    /\ fullResult = NoFullResult
    /\ streamResult = NoStreamResult
    /\ reader = IdleReader
    /\ writer = IdleWriter

\* a fn() that has finished: "returned" when it finished inside the call that
\* launched it, "settled" when an I/O completion finished it
IsSettled(f) == f.stage \in {"settled", "returned"}

\* an event loop that delivers I/O completions ahead of queued promise reactions
MicrotasksPending_never == FALSE

\* promise reactions are queued: they run before any I/O completion is delivered
MicrotasksPending ==
    \E t \in TaskIds : IsSettled(flight[t]) \/ tasks[t].pc = "ready"

\* the reactions to an I/O completion are running: no request handler, watcher
\* callback or other event is dispatched before they have run
ReactionsRunning ==
    \E t \in TaskIds : flight[t].stage = "settled" \/ tasks[t].pc = "ready"

-----------------------------------------------------------------------------
(* Inputs of the session listing: history logs and project directories *)

UserMeta(t, p) == [present |-> TRUE, display |-> "first user text", timestamp |-> t,
                   project |-> p]

JsonlFile(id, mtime, meta) == [id |-> id, jsonl |-> TRUE, mtime |-> mtime, meta |-> meta]
OtherFile == [id |-> "notes", jsonl |-> FALSE, mtime |-> 1, meta |-> NoMeta]

\* the session logs a directory may hold for one id
LogsOf(id) ==
    { JsonlFile(id, 1, NoMeta), JsonlFile(id, 2, NoMeta),
      JsonlFile(id, 1, UserMeta(2, EmptyPath)), JsonlFile(id, 2, UserMeta(1, PathA)) }

ListFiles == (UNION { LogsOf(id) : id \in Ids }) \cup {OtherFile}

\* listings of the first directory: no two files of one name
ListingsA ==
    {<<>>} \cup { <<f>> : f \in ListFiles }
           \cup { p \in { <<f, g>> : f \in ListFiles, g \in ListFiles } : p[1].id # p[2].id }

\* listings of the second directory
ListingsB ==
    {<<>>, <<JsonlFile("s1", 1, NoMeta)>>, <<JsonlFile("s1", 2, UserMeta(1, PathB))>>,
     <<JsonlFile("s2", 2, UserMeta(2, EmptyPath))>>,
     <<JsonlFile("s3", 1, NoMeta)>>, <<JsonlFile("s3", 2, UserMeta(2, EmptyPath))>>}

DirEntry(name, readable, files) == [name |-> name, readable |-> readable, files |-> files]

DirsA == {<<>>, <<DirEntry(DirA, FALSE, <<>>)>>}
            \cup { <<DirEntry(DirA, TRUE, fs)>> : fs \in ListingsA }
DirsB == {<<>>} \cup { <<DirEntry(DirB, TRUE, fs)>> : fs \in ListingsB }

ListDisks == { a \o b : a \in DirsA, b \in DirsB }

\* storage.ts:7-12
HistoryEntry(display, timestamp, project, sessionId) ==
    [isNull |-> FALSE, display |-> display, timestamp |-> timestamp, project |-> project,
     sessionId |-> sessionId]

\* the line "null" of a history log, as JSON.parse returns it
NullEntry ==
    [isNull |-> TRUE, display |-> "", timestamp |-> 0, project |-> NoProject,
     sessionId |-> NoId]

HistoryEntriesAt(i) ==
    LET d == IF i = 1 THEN "h1" ELSE IF i = 2 THEN "h2" ELSE "h3"
    IN { HistoryEntry(d, t, p, NoId) : t \in ListTimes, p \in {PathA, PathDotA} }
       \cup { HistoryEntry(d, 1, PathB, NoId) }
       \cup { HistoryEntry(d, t, PathB, "s1") : t \in ListTimes }
       \cup { HistoryEntry(d, 2, PathA, "s2") }

Histories ==
    UNION { { h \in [1..n -> UNION { HistoryEntriesAt(i) : i \in 1..n }] :
                \A i \in 1..n : h[i] \in HistoryEntriesAt(i) } : n \in 0..MaxHistory }

-----------------------------------------------------------------------------
(* SpecList: getSessions() over every history log and directory tree *)

InitList ==
    /\ history \in Histories
    /\ dirs \in ListDisks
    /\ sessionCache = NullCache
    /\ resolved = NotResolved
    /\ fileIndex = EmptyIndex /\ building = {} /\ finding = IdleFinding
    /\ findLog = NoFindLog
    /\ CoIdle
    /\ UsageIdle
    /\ StoreIdle

\* storage.ts:365-492 on an idle process: compute the list, or return the cached one
GetSessionsRun ==
    /\ sessionCache' = IF sessionCache.set \/ computeSessions(history, dirs).threw
                       THEN sessionCache
                       ELSE [set |-> TRUE, list |-> computeSessions(history, dirs).list]
    /\ UNCHANGED <<storeVars, usageVars, root, view, history, dirs, resolved, indexVars, coVars>>

\* storage.ts:141
invalidateSessionCache ==
    /\ ~ReactionsRunning
    /\ sessionCache' = NullCache
    /\ UNCHANGED <<storeVars, usageVars, root, view, history, dirs, resolved, indexVars, coVars>>

NextList == GetSessionsRun \/ invalidateSessionCache

SpecList == InitList /\ [][NextList]_vars

-----------------------------------------------------------------------------
(* Properties of the session list *)

\* the session id a history entry resolves to (storage.ts:379-383)
ResolvesTo(entry, ds) ==
    IF entry.sessionId # NoId THEN entry.sessionId
    ELSE findSessionByTimestamp(ds, encodeProjectPath(entry.project), entry.timestamp)

\* positions of the sessions of a list that carry id
PositionsOf(list, id) == { k \in 1..Len(list) : list[k].id = id }

\* the .jsonl files of the readable directories, as <<directory index, file index>>
ListedLogs(ds) ==
    UNION { { <<d, f>> : f \in { k \in 1..Len(ds[d].files) : ds[d].files[k].jsonl } } :
            d \in { k \in 1..Len(ds) : ds[k].readable } }

-----------------------------------------------------------------------------
(* SpecResolve: one history entry without sessionId against one directory *)

ResolveFiles == { JsonlFile(id, m, NoMeta) : id \in AllIds, m \in Times } \cup {OtherFile}

ResolveListings ==
    { fs \in UNION { [1..n -> ResolveFiles] : n \in 0..MaxFiles } :
        \A i, j \in 1..Len(fs) : i # j => fs[i].id # fs[j].id }

ResolveDisks ==
    {<<>>} \cup { <<DirEntry(n, FALSE, <<>>)>> : n \in {DirA, DirAB} }
           \cup { <<DirEntry(n, TRUE, fs)>> : n \in {DirA, DirAB}, fs \in ResolveListings }

InitResolve ==
    /\ history \in { <<HistoryEntry("h1", t, p, NoId)>> :
                        t \in Times, p \in {PathA, PathDotA, PathADotB} }
    /\ dirs \in ResolveDisks
    /\ sessionCache = NullCache
    /\ resolved = NotResolved
    /\ fileIndex = EmptyIndex /\ building = {} /\ finding = IdleFinding
    /\ findLog = NoFindLog
    /\ CoIdle
    /\ UsageIdle
    /\ StoreIdle

\* storage.ts:379-383 for the first history entry
ResolveEntry ==
    /\ ~resolved.done
    /\ resolved' = [done |-> TRUE,
                    id |-> findSessionByTimestamp(dirs, encodeProjectPath(history[1].project),
                                                  history[1].timestamp)]
    /\ UNCHANGED <<storeVars, usageVars, root, view, history, dirs, sessionCache, indexVars, coVars>>

NextResolve == ResolveEntry \/ GetSessionsRun

SpecResolve == InitResolve /\ [][NextResolve]_vars

\* name is path with every "/" and "." replaced by "-"
IsEncodingOf(name, path) ==
    /\ Len(name) = Len(path)
    /\ \A i \in 1..Len(path) :
          name[i] = IF path[i] = "/" \/ path[i] = "." THEN "-" ELSE path[i]

\* the .jsonl files, in listing order, of the directory a path is encoded to
\* (none when that directory does not exist or cannot be listed)
LogsFor(ds, path) ==
    LET hits == { d \in 1..Len(ds) : IsEncodingOf(ds[d].name, path) /\ ds[d].readable }
    IN IF hits = {} THEN <<>>
       ELSE SelectSeq(ds[CHOOSE d \in hits : TRUE].files, LAMBDA f : f.jsonl)

\* id is the first file of logs, in listing order, at the least distance from t
IsClosestFirst(logs, t, id) ==
    \E k \in 1..Len(logs) :
        /\ logs[k].id = id
        /\ \A j \in 1..Len(logs) : Abs(logs[k].mtime - t) <= Abs(logs[j].mtime - t)
        /\ \A j \in 1..(k - 1) : Abs(logs[j].mtime - t) > Abs(logs[k].mtime - t)

-----------------------------------------------------------------------------
(* Session index *)

\* join(projectPath, file)
PathOf(dirName, id) == <<dirName, id>>

\* files.includes(`${sessionId}.jsonl`)
HasLog(dir, id) == \E k \in 1..Len(dir.files) : dir.files[k].jsonl /\ dir.files[k].id = id

\* storage.ts:232-237: every .jsonl file of one directory is set in the index
IndexDir(index, dir) ==
    [id \in Ids |-> IF dir.readable /\ HasLog(dir, id) THEN PathOf(dir.name, id)
                    ELSE index[id]]

\* storage.ts:334-349: the path in the first directory, in listing order, that
\* lists the file; NoPath when none does
ScanFor(ds, id) ==
    LET hits == { d \in 1..Len(ds) : ds[d].readable /\ HasLog(ds[d], id) }
    IN IF hits = {} THEN NoPath
       ELSE PathOf(ds[CHOOSE d \in hits : \A e \in hits : d <= e].name, id)

\* storage.ts:222-226: buildFileIndex lists the projects directory and fans out
buildFileIndexStart ==
    /\ building = {}
    /\ findLog.builds < MaxBuilds
    /\ building' = { dirs[d].name : d \in 1..Len(dirs) }
    /\ findLog' = [findLog EXCEPT !.builds = @ + 1]
    /\ UNCHANGED <<dirs, listVars, storeVars, usageVars, root, view, fileIndex, finding, coVars>>

\* storage.ts:228-241: one directory's listing arrives
buildFileIndexDir(name) ==
    /\ name \in building
    /\ building' = building \ {name}
    /\ fileIndex' = IF DirIndex(dirs, name) = 0 THEN fileIndex
                    ELSE IndexDir(fileIndex, dirs[DirIndex(dirs, name)])
    /\ UNCHANGED <<dirs, listVars, storeVars, usageVars, root, view, finding, findLog, coVars>>

\* a lookup that scans the directories whether or not the index holds the id
IndexHit_never(id) == FALSE

\* storage.ts:324
IndexHit(id) == fileIndex[id] # NoPath

\* storage.ts:323-326: findSessionFile answered from the index
findSessionFileHit(id) ==
    /\ findLog.calls < MaxFindCalls
    /\ IndexHit(id)
    /\ findLog' = [findLog EXCEPT !.calls = @ + 1, !.lastId = id,
                                  !.lastResult = fileIndex[id]]
    /\ UNCHANGED <<dirs, listVars, storeVars, usageVars, root, view, fileIndex, building, finding, coVars>>

\* storage.ts:328-331: findSessionFile misses the index and starts to scan
findSessionFileMiss(id) ==
    /\ findLog.calls < MaxFindCalls
    /\ ~IndexHit(id)
    /\ finding' = [finding EXCEPT ![id] = @ + 1]
    /\ findLog' = [findLog EXCEPT !.calls = @ + 1, !.scans[id] = @ + 1, !.lastId = id,
                                  !.lastResult = NoPath]
    /\ UNCHANGED <<dirs, listVars, storeVars, usageVars, root, view, fileIndex, building, coVars>>

\* storage.ts:334-358: the scan returns
findSessionFileScanned(id) ==
    /\ finding[id] > 0
    /\ finding' = [finding EXCEPT ![id] = @ - 1]
    /\ LET filePath == ScanFor(dirs, id)
       IN /\ fileIndex' = IF filePath # NoPath THEN [fileIndex EXCEPT ![id] = filePath]
                          ELSE fileIndex
          /\ findLog' = [findLog EXCEPT !.lastId = id, !.lastResult = filePath]
    /\ UNCHANGED <<dirs, listVars, storeVars, usageVars, root, view, building, coVars>>

\* storage.ts:145-147, called for a log file that exists on disk
addToFileIndex(id, d) ==
    /\ d \in 1..Len(dirs)
    /\ HasLog(dirs[d], id)
    /\ fileIndex' = [fileIndex EXCEPT ![id] = PathOf(dirs[d].name, id)]
    /\ UNCHANGED <<dirs, listVars, storeVars, usageVars, root, view, building, finding, findLog, coVars>>

\* the external tool starts a session: a new log appears at the end of a listing
CreateLog(id, d) ==
    /\ ~ReactionsRunning
    /\ findLog.created < MaxNewLogs
    /\ d \in 1..Len(dirs)
    /\ dirs[d].readable
    /\ \A k \in 1..Len(dirs[d].files) : dirs[d].files[k].id # id
    /\ dirs' = [dirs EXCEPT ![d].files = Append(@, JsonlFile(id, 1, NoMeta))]
    /\ findLog' = [findLog EXCEPT !.created = @ + 1]
    /\ UNCHANGED <<listVars, storeVars, usageVars, root, view, fileIndex, building, finding, coVars>>

IndexListings ==
    {<<>>, <<JsonlFile("s1", 1, NoMeta)>>, <<JsonlFile("s2", 1, NoMeta)>>,
     <<OtherFile, JsonlFile("s1", 1, NoMeta)>>}

IndexDisks ==
    { a \o b :
        a \in {<<>>} \cup { <<DirEntry(DirA, TRUE, fs)>> : fs \in IndexListings },
        b \in {<<>>, <<DirEntry(DirB, FALSE, <<>>)>>}
                \cup { <<DirEntry(DirB, TRUE, fs)>> : fs \in IndexListings } }

InitIndex ==
    /\ history = <<>>
    /\ dirs \in IndexDisks
    /\ sessionCache = NullCache
    /\ resolved = NotResolved
    /\ fileIndex = EmptyIndex /\ building = {} /\ finding = IdleFinding
    /\ findLog = NoFindLog
    /\ CoIdle
    /\ UsageIdle
    /\ StoreIdle

NextIndex ==
    \/ buildFileIndexStart
    \/ \E name \in {DirA, DirB} : buildFileIndexDir(name)
    \/ \E id \in Ids : findSessionFileHit(id)
    \/ \E id \in Ids : findSessionFileMiss(id)
    \/ \E id \in Ids : findSessionFileScanned(id)
    \/ \E id \in Ids, d \in 1..Len(dirs) : addToFileIndex(id, d)
    \/ \E id \in Ids, d \in 1..Len(dirs) : CreateLog(id, d)

SpecIndex == InitIndex /\ [][NextIndex]_vars

-----------------------------------------------------------------------------
(* Properties of the session index *)

\* C9: once fileIndex maps an id to a path, no step of buildFileIndex,
\* findSessionFile or addToFileIndex makes it map that id to another path.
C9_IdKeepsItsPath ==
    [][\A id \in Ids : fileIndex[id] # NoPath => fileIndex'[id] = fileIndex[id]]_vars

\* C10: a scan that finds <id>.jsonl returns its path and leaves the index mapping
\* id to it; a scan that finds none returns not-found and leaves the index as it
\* was; a call for an indexed id is answered from the index without a scan; a call
\* for an id the index does not hold scans, also after an earlier fruitless scan.
C10_LazyBackfill ==
    [][\A id \in Ids :
        /\ finding'[id] < finding[id] =>
              IF \E d \in 1..Len(dirs) : dirs[d].readable /\ HasLog(dirs[d], id)
              THEN /\ \E d \in 1..Len(dirs) :
                        /\ dirs[d].readable /\ HasLog(dirs[d], id)
                        /\ findLog'.lastResult = <<dirs[d].name, id>>
                   /\ fileIndex'[id] = findLog'.lastResult
                   /\ \A other \in Ids \ {id} : fileIndex'[other] = fileIndex[other]
              ELSE /\ findLog'.lastResult = NoPath
                   /\ fileIndex' = fileIndex
        /\ (findLog'.calls > findLog.calls /\ findLog'.lastId = id) =>
              IF fileIndex[id] # NoPath
              THEN /\ findLog'.scans = findLog.scans
                   /\ findLog'.lastResult = fileIndex[id]
                   /\ fileIndex' = fileIndex
              ELSE /\ findLog'.scans[id] = findLog.scans[id] + 1
                   /\ fileIndex' = fileIndex
        /\ fileIndex[id] # NoPath => findLog'.scans[id] = findLog.scans[id]
      ]_vars

\* with no build and no addToFileIndex: a fruitless scan for s2 and a second scan
\* for it after the first, a scan for s1 that found its log, all scans returned
C10_Witness ==
    /\ findLog.builds = 0
    /\ findLog.scans["s2"] = 2 /\ fileIndex["s2"] = NoPath
    /\ findLog.scans["s1"] = 1 /\ fileIndex["s1"] = PathOf(DirB, "s1")
    /\ finding = IdleFinding
    /\ findLog.lastId = "s1" /\ findLog.lastResult = fileIndex["s1"]
    /\ \A d \in 1..Len(dirs) : ~HasLog(dirs[d], "s2")

-----------------------------------------------------------------------------
(* Request coalescer, the cached session list and the callers *)

\* a lookup that never finds the stored promise
HasPending_never(key) == FALSE

\* storage.ts:272-273
HasPending(key) == pendingRequests[key] # 0

\* a cleanup registered with then(): skipped when fn() rejects
CleansUp_onSuccess(outcome) == outcome.ok

\* storage.ts:277-279: finally() runs after fulfilment and after rejection
CleansUp(outcome) == TRUE

\* a getSessions() that recomputes whatever the cache holds
CacheHit_never == FALSE

\* storage.ts:367
CacheHit == sessionCache.set

\* storage.ts:378-398 up to its first await: whether the loop throws before it
RECURSIVE ThrowsBeforeAwait(_, _, _)
ThrowsBeforeAwait(entries, i, seenIds) ==
    IF i > Len(entries) THEN FALSE
    ELSE LET entry == entries[i]
         IN IF entry.isNull THEN TRUE
            ELSE IF entry.sessionId = NoId THEN entry.project = NoProject
            ELSE IF entry.sessionId \in seenIds THEN ThrowsBeforeAwait(entries, i + 1, seenIds)
            ELSE IF entry.project = NoProject THEN TRUE
            ELSE ThrowsBeforeAwait(entries, i + 1, seenIds \cup {entry.sessionId})

Rejected == [ok |-> FALSE, list |-> <<>>, read |-> NoRead]
Settled(key, outcome) ==
    [stage |-> "settled", key |-> key, entries |-> <<>>, path |-> NoPath,
     outcome |-> outcome]
Returned(key, outcome) == [Settled(key, outcome) EXCEPT !.stage = "returned"]

\* the fn() of a dedupe call up to its first I/O: storage.ts:366-375 for
\* getSessions, storage.ts:511-512 with 323-326 for getConversation
FnStart(key) ==
    IF key = KeySessions
    THEN IF CacheHit
         THEN Returned(key, [ok |-> TRUE, list |-> sessionCache.list, read |-> NoRead])
         ELSE IF ~historyCache.set
         THEN [IdleFlight EXCEPT !.stage = "history", !.key = key]
         ELSE IF ThrowsBeforeAwait(historyCache.entries, 1, {})
         THEN Returned(key, Rejected)
         ELSE [IdleFlight EXCEPT !.stage = "scan", !.key = key,
                                 !.entries = historyCache.entries]
    ELSE [IdleFlight EXCEPT !.stage = "read", !.key = key, !.path = fileIndex[key[2]]]

\* storage.ts:271-283, called by task t whose record becomes rec
dedupe(t, key, rec) ==
    /\ tasks' = [tasks EXCEPT ![t] =
                    [rec EXCEPT !.pc = "await", !.key = key,
                                !.awaits = IF HasPending(key) THEN pendingRequests[key]
                                           ELSE t]]
    /\ IF HasPending(key)
       THEN UNCHANGED <<pendingRequests, flight>>
       ELSE /\ pendingRequests' = [pendingRequests EXCEPT ![key] = t]
            /\ flight' = [flight EXCEPT ![t] = FnStart(key)]

\* callers are interchangeable: the next call is made by the lowest idle task
NextCaller(t) ==
    /\ ~ReactionsRunning
    /\ tasks[t].pc = "idle"
    /\ \A u \in TaskIds : u < t => tasks[u].pc # "idle"

\* storage.ts:365-366
getSessions(t) ==
    /\ NextCaller(t)
    /\ dedupe(t, KeySessions,
              [tasks[t] EXCEPT
                  !.op = "getSessions", !.cacheAtCall = sessionCache,
                  !.staleAtCall = (computeSessions(history, dirs).list # sessionCache.list)])
    /\ UNCHANGED <<storeVars, usageVars, root, view, history, dirs, sessionCache, resolved, indexVars, historyCache>>

\* storage.ts:508-511
getConversation(t, id) ==
    /\ NextCaller(t)
    /\ dedupe(t, ConvKey(id), [tasks[t] EXCEPT !.op = "getConversation", !.arg = id])
    /\ UNCHANGED <<storeVars, usageVars, root, view, history, dirs, sessionCache, resolved, indexVars, historyCache>>

\* storage.ts:544-548: a tail read starts; it goes through no dedupe
getConversationStream(t, id) ==
    /\ NextCaller(t)
    /\ tasks' = [tasks EXCEPT ![t] =
                    [@ EXCEPT !.op = "getConversationStream", !.arg = id, !.pc = "tail"]]
    /\ UNCHANGED <<storeVars, usageVars, root, view, history, dirs, sessionCache, resolved, indexVars, historyCache,
                   pendingRequests, flight>>

\* the callers of getUsageSummary that have not returned
UsageRunning == { u \in TaskIds : tasks[u].op = "getUsageSummary" /\ tasks[u].pc # "done" }

\* storage.ts:675-679: getUsageSummary() up to its await of getSessions()
getUsageSummary(t) ==
    /\ NextCaller(t)
    /\ dedupe(t, KeySessions,
              [tasks[t] EXCEPT
                  !.op = "getUsageSummary",
                  !.over = UsageRunning,
                  !.early = { u \in UsageRunning :
                                tasks[u].pc = "await" /\ tasks[u].key = KeySessions },
                  !.computed = ~HasPending(KeySessions) /\ ~CacheHit])
    /\ UNCHANGED <<storeVars, usageVars, root, view, history, dirs, sessionCache, resolved, indexVars, historyCache>>

\* storage.ts:727-728: the loop of getUsageSummary reaches session k of its list
UsageLoop(t, rec) ==
    IF rec.k > Len(rec.list)
    THEN /\ tasks' = [tasks EXCEPT ![t] = [rec EXCEPT !.pc = "done", !.key = NoKey]]
         /\ UNCHANGED <<pendingRequests, flight>>
    ELSE dedupe(t, ConvKey(rec.list[rec.k].id), rec)

\* storage.ts:679-814: getUsageSummary() resumes after the promise it awaited
usageResume(t) ==
    /\ tasks[t].pc = "ready"
    /\ IF tasks[t].key = KeySessions
       THEN IF tasks[t].result.ok
            THEN UsageLoop(t, [tasks[t] EXCEPT !.list = tasks[t].result.list, !.k = 1])
            ELSE /\ tasks' = [tasks EXCEPT ![t] = [@ EXCEPT !.pc = "done", !.key = NoKey]]
                 /\ UNCHANGED <<pendingRequests, flight>>
       ELSE UsageLoop(t, [tasks[t] EXCEPT
                            !.consumed[tasks[t].key[2]] = tasks[t].result.read.by,
                            !.k = @ + 1])
    /\ UNCHANGED <<storeVars, usageVars, root, view, history, dirs, sessionCache, resolved, indexVars, historyCache>>

\* storage.ts:248-269 inside getSessions: history.jsonl has been read
loadHistoryCache(t) ==
    /\ flight[t].stage = "history"
    /\ ~MicrotasksPending
    /\ historyCache' = [set |-> TRUE, entries |-> history]
    /\ flight' = [flight EXCEPT ![t] =
                    IF ThrowsBeforeAwait(history, 1, {}) THEN Settled(KeySessions, Rejected)
                    ELSE [@ EXCEPT !.stage = "scan", !.entries = history]]
    /\ UNCHANGED <<storeVars, usageVars, root, view, history, dirs, sessionCache, resolved, indexVars, pendingRequests, tasks>>

\* storage.ts:378-490: the directory reads of a getSessions computation return
sessionsComputed(t) ==
    /\ flight[t].stage = "scan"
    /\ ~MicrotasksPending
    /\ LET res == computeSessions(flight[t].entries, dirs)
       IN IF res.threw
          THEN /\ flight' = [flight EXCEPT ![t] = Settled(KeySessions, Rejected)]
               /\ UNCHANGED sessionCache
          ELSE /\ sessionCache' = [set |-> TRUE, list |-> res.list]
               /\ flight' = [flight EXCEPT ![t] =
                    Settled(KeySessions, [ok |-> TRUE, list |-> res.list, read |-> NoRead])]
    /\ UNCHANGED <<storeVars, usageVars, root, view, history, dirs, resolved, indexVars, historyCache, pendingRequests, tasks>>

\* storage.ts:323-359: the path findSessionFile settles on, and the index after it
FoundPath(indexed, id) == IF indexed # NoPath THEN indexed ELSE ScanFor(dirs, id)
Backfilled(indexed, id) ==
    IF indexed = NoPath /\ ScanFor(dirs, id) # NoPath
    THEN [fileIndex EXCEPT ![id] = ScanFor(dirs, id)]
    ELSE fileIndex

\* storage.ts:512-540: the full read of a getConversation computation returns
conversationRead(t) ==
    /\ flight[t].stage = "read"
    /\ ~MicrotasksPending
    /\ LET id == flight[t].key[2]
       IN /\ fileIndex' = Backfilled(flight[t].path, id)
          /\ flight' = [flight EXCEPT ![t] =
                Settled(flight[t].key,
                        [ok |-> TRUE, list |-> <<>>,
                         read |-> [by |-> t, id |-> id,
                                   path |-> FoundPath(flight[t].path, id)]])]
    /\ UNCHANGED <<storeVars, usageVars, root, view, history, dirs, sessionCache, resolved, building, finding, findLog,
                   historyCache, pendingRequests, tasks>>

\* storage.ts:277-279: the promise of a finished fn() settles: the finally callback
\* runs, then every caller holding the promise gets the outcome
promiseSettled(t) ==
    /\ IsSettled(flight[t])
    /\ pendingRequests' = IF CleansUp(flight[t].outcome)
                          THEN [pendingRequests EXCEPT ![flight[t].key] = 0]
                          ELSE pendingRequests
    /\ tasks' = [u \in TaskIds |->
                    IF tasks[u].pc = "await" /\ tasks[u].awaits = t
                    THEN [tasks[u] EXCEPT
                            !.result = flight[t].outcome, !.awaits = 0,
                            !.pc = IF tasks[u].op = "getUsageSummary" THEN "ready"
                                   ELSE "done"]
                    ELSE tasks[u]]
    /\ flight' = [flight EXCEPT ![t] = IdleFlight]
    /\ UNCHANGED <<storeVars, usageVars, root, view, history, dirs, sessionCache, resolved, indexVars, historyCache>>

\* storage.ts:548-608: the tail read of a getConversationStream call returns
tailRead(t) ==
    /\ tasks[t].pc = "tail"
    /\ ~MicrotasksPending
    /\ LET id == tasks[t].arg
       IN /\ fileIndex' = Backfilled(fileIndex[id], id)
          /\ tasks' = [tasks EXCEPT ![t] =
                [@ EXCEPT !.pc = "done",
                          !.result = [ok |-> TRUE, list |-> <<>>,
                                      read |-> [by |-> t, id |-> id,
                                                path |-> FoundPath(fileIndex[id], id)]]]]
    /\ UNCHANGED <<storeVars, usageVars, root, view, history, dirs, sessionCache, resolved, building, finding, findLog,
                   historyCache, pendingRequests, flight>>

\* storage.ts:136-139
invalidateHistoryCache ==
    /\ ~ReactionsRunning
    /\ historyCache' = NullHistory
    /\ sessionCache' = NullCache
    /\ UNCHANGED <<storeVars, usageVars, root, view, history, dirs, resolved, indexVars, pendingRequests, flight, tasks>>

LogS1 == JsonlFile("s1", 1, UserMeta(2, PathA))
LogS2 == JsonlFile("s2", 2, UserMeta(1, EmptyPath))

Init ==
    /\ history \in {<<>>, <<NullEntry>>}
    /\ dirs \in { <<DirEntry(DirA, TRUE, <<LogS1>>)>>,
                  <<DirEntry(DirA, TRUE, <<LogS1, LogS2>>)>> }
    /\ sessionCache = NullCache
    /\ resolved = NotResolved
    /\ fileIndex = EmptyIndex /\ building = {} /\ finding = IdleFinding
    /\ findLog = NoFindLog
    /\ CoIdle
    /\ UsageIdle
    /\ StoreIdle

Next ==
    \/ \E t \in TaskIds : getSessions(t)
    \/ \E t \in TaskIds, id \in Ids : getConversation(t, id)
    \/ \E t \in TaskIds, id \in Ids : getConversationStream(t, id)
    \/ \E t \in TaskIds : getUsageSummary(t)
    \/ \E t \in TaskIds : usageResume(t)
    \/ \E t \in TaskIds : loadHistoryCache(t)
    \/ \E t \in TaskIds : sessionsComputed(t)
    \/ \E t \in TaskIds : conversationRead(t)
    \/ \E t \in TaskIds : promiseSettled(t)
    \/ \E t \in TaskIds : tailRead(t)
    \/ invalidateSessionCache
    \/ invalidateHistoryCache
    \/ \E id \in Ids, d \in 1..Len(dirs) : CreateLog(id, d)

Spec == Init /\ [][Next]_vars

-----------------------------------------------------------------------------
(* Properties of the request coalescer and of the cached session list *)

Awaiting(t, key) == tasks[t].pc = "await" /\ tasks[t].key = key
Calls(t) == tasks[t].pc # "await" /\ tasks'[t].pc = "await"

\* C1: a dedupe call made while an earlier call with the same key has not settled
\* runs no fn and holds the earlier caller's promise; when a caller's promise
\* settles, every caller of that key settles in the same step with the same
\* outcome, fulfilled or rejected.
C1_Coalescing ==
    [][\A t \in TaskIds, u \in TaskIds :
          /\ (Calls(t) /\ Awaiting(u, tasks'[t].key))
                => /\ flight' = flight
                   /\ tasks'[t].awaits = tasks[u].awaits
          /\ (Awaiting(t, tasks[u].key) /\ Awaiting(u, tasks[u].key)
                /\ tasks'[t].pc # "await")
                => /\ tasks'[u].pc # "await"
                   /\ tasks'[u].result = tasks'[t].result]_vars

\* two getSessions() callers hold the promise of one computation that is
\* populating the cache
C1_Witness ==
    \E t \in TaskIds, u \in TaskIds :
        /\ t # u
        /\ Awaiting(t, KeySessions) /\ Awaiting(u, KeySessions)
        /\ tasks[t].awaits = tasks[u].awaits
        /\ flight[tasks[t].awaits].stage = "scan"
        /\ Cardinality({ v \in TaskIds : flight[v].stage # "idle"
                                           /\ flight[v].key = KeySessions }) = 1

Running(t, key) == flight[t].stage # "idle" /\ flight[t].key = key

\* C2: a key is in pendingRequests only while the computation launched for it is
\* running; when that computation's promise settles, fulfilled or rejected, the
\* key leaves pendingRequests; and a dedupe call that finds no entry for its key
\* starts fn anew.
C2_KeyLeavesOnSettle ==
    /\ [](\A key \in Keys : HasPending(key) => Running(pendingRequests[key], key))
    /\ [][\A t \in TaskIds :
            /\ (IsSettled(flight[t]) /\ flight'[t].stage = "idle")
                  => pendingRequests'[flight[t].key] = 0
            /\ (Calls(t) /\ pendingRequests[tasks'[t].key] = 0)
                  => /\ tasks'[t].awaits = t
                     /\ flight[t].stage = "idle"
                     /\ flight'[t].stage # "idle"
                     /\ flight'[t].key = tasks'[t].key]_vars

\* after a caller saw getSessions() fail, a later caller runs the computation again
C2_Witness ==
    \E t \in TaskIds, u \in TaskIds :
        /\ tasks[t].op = "getSessions" /\ tasks[t].pc = "done" /\ ~tasks[t].result.ok
        /\ Awaiting(u, KeySessions) /\ tasks[u].awaits = u
        /\ flight[u].stage \in {"history", "scan"}

FullReads(id) == { t \in TaskIds : flight[t].stage = "read" /\ flight[t].key = ConvKey(id) }
TailReads(id) == { t \in TaskIds : tasks[t].pc = "tail" /\ tasks[t].arg = id }

\* C3 as stated: for every session id at most one full read and at most one tail
\* read is in progress.
C3_BothModesCoalesced ==
    \A id \in Ids : Cardinality(FullReads(id)) <= 1 /\ Cardinality(TailReads(id)) <= 1

\* C3: for every session id at most one full read (getConversation) is in progress,
\* and every caller awaiting that session's full read holds the promise of that read.
C3_FullReadsCoalesced ==
    \A id \in Ids :
        /\ Cardinality(FullReads(id)) <= 1
        /\ \A t \in TaskIds :
              Awaiting(t, ConvKey(id)) => Running(tasks[t].awaits, ConvKey(id))

\* two callers of getConversation for one session share one read in progress
C3_Witness ==
    \E id \in Ids, t \in TaskIds, u \in TaskIds :
        /\ t # u
        /\ tasks[t].op = "getConversation" /\ tasks[u].op = "getConversation"
        /\ Awaiting(t, ConvKey(id)) /\ Awaiting(u, ConvKey(id))
        /\ FullReads(id) = {tasks[t].awaits}

UsageDone(t) == tasks[t].op = "getUsageSummary" /\ tasks[t].pc = "done"
SharedReads(t, u) ==
    /\ \A id \in Ids : tasks[t].consumed[id] = tasks[u].consumed[id]
    /\ ~(tasks[t].computed /\ tasks[u].computed)

\* C4 as stated: two getUsageSummary() calls, the second issued before the first
\* completed, consume the same read of every session and at most one computation
\* of the session list.
C4_OneSetOfReads ==
    \A t \in TaskIds, u \in TaskIds :
        (UsageDone(t) /\ UsageDone(u) /\ u \in tasks[t].over) => SharedReads(t, u)

\* C4: two getUsageSummary() calls, the second issued while the first was still
\* awaiting its getSessions() result, consume the same read of every session and
\* at most one computation of the session list.
C4_OneSetOfReadsWhenIssuedTogether ==
    \A t \in TaskIds, u \in TaskIds :
        (UsageDone(t) /\ UsageDone(u) /\ u \in tasks[t].early) => SharedReads(t, u)

\* two such calls have finished over a list of two sessions, one read each
C4_Witness ==
    \E t \in TaskIds, u \in TaskIds :
        /\ UsageDone(t) /\ UsageDone(u) /\ u \in tasks[t].early
        /\ Len(tasks[t].list) = 2 /\ tasks[u].list = tasks[t].list
        /\ \A id \in Ids : tasks[t].consumed[id] # 0
        /\ tasks[u].computed

\* C8: a cached session list is replaced by nothing and dropped only by
\* invalidateSessionCache() or invalidateHistoryCache(); a getSessions() call made
\* while the list is cached holds a promise already fulfilled with the cached list,
\* no read pending behind it, and returns that list.
C8_CachedUntilInvalidated ==
    /\ [](\A t \in TaskIds :
            (tasks[t].op = "getSessions" /\ tasks[t].pc = "done"
                /\ tasks[t].cacheAtCall.set)
               => /\ tasks[t].result.ok
                  /\ tasks[t].result.list = tasks[t].cacheAtCall.list)
    /\ [][/\ (sessionCache.set /\ sessionCache' # sessionCache)
                => /\ sessionCache' = NullCache
                   /\ historyCache' \in {historyCache, NullHistory}
                   /\ UNCHANGED <<storeVars, usageVars, root, view, history, dirs, resolved, indexVars,
                                  pendingRequests, flight, tasks>>
          /\ \A t \in TaskIds :
                (Calls(t) /\ tasks'[t].op = "getSessions" /\ sessionCache.set)
                   => /\ IsSettled(flight'[tasks'[t].awaits])
                      /\ flight'[tasks'[t].awaits].outcome.ok
                      /\ flight'[tasks'[t].awaits].outcome.list = sessionCache.list
                      /\ UNCHANGED <<sessionCache, historyCache, fileIndex>>]_vars

\* a call made after a log was added on disk returned the list cached before it
C8_Witness ==
    \E t \in TaskIds :
        /\ tasks[t].op = "getSessions" /\ tasks[t].pc = "done"
        /\ tasks[t].cacheAtCall.set /\ tasks[t].staleAtCall
        /\ findLog.created > 0
        /\ tasks[t].result.list = tasks[t].cacheAtCall.list

-----------------------------------------------------------------------------
(* Conversation store: the session log as bytes, the full read and the tail read *)

MaxLines == 3       \* lines in the session log of a run of the conversation store

\* A line of the log is [kind, len, term, id]: what JSON.parse makes of its text
\* (a message of type user/assistant/summary/other, "bad" when it throws, "blank"
\* when the text is empty or white space), the bytes of the text, the bytes of
\* its terminator (1 for \n, 2 for \r\n, 0 for the unterminated end of the file)
\* and the identity of the message it carries.
MessageTypes == {"user", "assistant", "summary", "other"}
LineShapes ==
    { [kind |-> "user", len |-> 2], [kind |-> "assistant", len |-> 3],
      [kind |-> "summary", len |-> 2], [kind |-> "other", len |-> 2],
      [kind |-> "bad", len |-> 2], [kind |-> "blank", len |-> 0],
      [kind |-> "blank", len |-> 1] }
Newlines == {1, 2}
Line(shape, term, id) ==
    [kind |-> shape.kind, len |-> shape.len, term |-> term, id |-> id]
Message(line) == [type |-> line.kind, id |-> line.id]

RECURSIVE FileSize(_)
FileSize(lines) ==
    IF lines = <<>> THEN 0
    ELSE lines[1].len + lines[1].term + FileSize(Tail(lines))

\* the byte offset at which line i of the log starts
LineStart(lines, i) == FileSize(SubSeq(lines, 1, i - 1))

\* storage.ts:566-574: the lines readline yields from a stream opened at offset o.
\* A line cut by o yields the rest of its text, which no longer parses; an offset
\* inside a terminator yields an empty line for the rest of the terminator.
RECURSIVE LinesFrom(_, _, _, _)
LinesFrom(lines, i, pos, o) ==
    IF i > Len(lines) THEN <<>>
    ELSE LET l == lines[i]
             textEnd == pos + l.len
             end == textEnd + l.term
         IN IF o >= end THEN LinesFrom(lines, i + 1, end, o)
            ELSE IF o <= pos THEN SubSeq(lines, i, Len(lines))
            ELSE IF o < textEnd
            THEN <<[l EXCEPT !.kind = IF l.kind = "blank" THEN "blank" ELSE "bad",
                             !.len = textEnd - o]>>
                 \o SubSeq(lines, i + 1, Len(lines))
            ELSE <<[l EXCEPT !.kind = "blank", !.len = 0, !.term = end - o]>>
                 \o SubSeq(lines, i + 1, Len(lines))

\* storage.ts:577: Buffer.byteLength(line, "utf-8") + 1
lineBytes(line) == line.len + 1

\* a reader for which no line is blank
IsBlank_never(line) == FALSE

\* storage.ts:579: line.trim() is empty
IsBlank(line) == line.kind = "blank"

\* storage.ts:523 and 581: JSON.parse(line) returns
Parses(line) == line.kind \in MessageTypes

\* storage.ts:582 and 524
IsTranscript(line) == line.kind \in {"user", "assistant"}

\* storage.ts:576-593: the for-await loop, from line i of what readline yields
RECURSIVE Consume(_, _, _)
Consume(lines, i, acc) ==
    IF i > Len(lines) THEN acc
    ELSE LET line == lines[i]
         IN IF ~IsBlank(line)
            THEN IF Parses(line)
                 THEN Consume(lines, i + 1,
                        [messages |-> IF IsTranscript(line)
                                      THEN Append(acc.messages, Message(line))
                                      ELSE acc.messages,
                         bytesConsumed |-> acc.bytesConsumed + lineBytes(line),
                         consumed |-> acc.consumed + 1])
                 ELSE acc
            ELSE Consume(lines, i + 1,
                        [acc EXCEPT !.bytesConsumed = @ + lineBytes(line),
                                    !.consumed = @ + 1])

\* an early return that is never taken
AtOrBeyond_never(fromOffset, fileSize) == FALSE

\* storage.ts:561
AtOrBeyond(fromOffset, fileSize) == fromOffset >= fileSize

\* an offset returned as computed
ClampToSize_none(actualOffset, fileSize) == actualOffset

\* storage.ts:596
ClampToSize(actualOffset, fileSize) ==
    IF actualOffset > fileSize THEN fileSize ELSE actualOffset

\* storage.ts:544-608: getConversationStream(sessionId, fromOffset), where the
\* path lookup finds the log or not, stat reports fileSize, the read sees lines,
\* and ok tells whether stat, open and read all succeed
getConversationStreamResult(isFound, fileSize, lines, fromOffset, ok) ==
    LET base == [NoStreamResult EXCEPT !.done = TRUE, !.ok = ok,
                                       !.fromOffset = fromOffset, !.fileSize = fileSize]
    IN IF ~isFound THEN [base EXCEPT !.nextOffset = 0]
       ELSE IF ~ok \/ AtOrBeyond(fromOffset, fileSize)
       THEN [base EXCEPT !.nextOffset = fromOffset]
       ELSE LET r == Consume(LinesFrom(lines, 1, 0, fromOffset), 1,
                             [messages |-> <<>>, bytesConsumed |-> 0, consumed |-> 0])
            IN [base EXCEPT
                  !.messages = r.messages,
                  !.consumed = r.consumed,
                  !.nextOffset = ClampToSize(fromOffset + r.bytesConsumed, fileSize)]

\* a summary added at the end of the result
Unshift_appends(messages, msg) == Append(messages, msg)

\* storage.ts:527: messages.unshift(msg)
Unshift(messages, msg) == <<msg>> \o messages

\* a parse failure that ends the read
AfterMalformed_aborts(lines, i, messages) == messages

\* storage.ts:522-532: the loop of the full read, from line i
RECURSIVE FullFrom(_, _, _)

\* storage.ts:529-531: the catch inside the loop goes on with the next line
AfterMalformed(lines, i, messages) == FullFrom(lines, i + 1, messages)

FullFrom(lines, i, messages) ==
    IF i > Len(lines) THEN messages
    ELSE LET line == lines[i]
         IN IF line.kind = "blank" /\ line.len = 0 /\ line.term < 2
            THEN FullFrom(lines, i + 1, messages)
            ELSE IF ~Parses(line) THEN AfterMalformed(lines, i, messages)
            ELSE IF IsTranscript(line)
            THEN FullFrom(lines, i + 1, Append(messages, Message(line)))
            ELSE IF line.kind = "summary"
            THEN FullFrom(lines, i + 1, Unshift(messages, Message(line)))
            ELSE FullFrom(lines, i + 1, messages)

\* storage.ts:508-542: getConversation(sessionId)
getConversationResult(isFound, lines, ok) ==
    [done |-> TRUE, ok |-> ok,
     messages |-> IF isFound /\ ok THEN FullFrom(lines, 1, <<>>) ELSE <<>>]

-----------------------------------------------------------------------------
(* Reads of a log that nobody writes *)

LogsOfLen(n) ==
    { [i \in 1..n |-> Line(f[i], nl, i)] : f \in [1..n -> LineShapes], nl \in Newlines }

\* the same log before the terminator of its last line is written
Unterminated(lines) ==
    IF lines # <<>> /\ lines[Len(lines)].len > 0
    THEN [lines EXCEPT ![Len(lines)].term = 0]
    ELSE lines

StoreLogs ==
    LET whole == UNION { LogsOfLen(n) : n \in 0..MaxLines }
    IN whole \cup { Unterminated(lines) : lines \in whole }

InitStore ==
    /\ history = <<>>
    /\ dirs = <<>>
    /\ sessionCache = NullCache
    /\ resolved = NotResolved
    /\ fileIndex = EmptyIndex /\ building = {} /\ finding = IdleFinding
    /\ findLog = NoFindLog
    /\ CoIdle
    /\ UsageIdle
    /\ found \in BOOLEAN
    /\ log \in IF found THEN StoreLogs ELSE {<<>>}
    /\ fullResult = NoFullResult
    /\ streamResult = NoStreamResult
    /\ reader = IdleReader
    /\ writer = IdleWriter

otherVars == <<history, dirs, sessionCache, resolved, indexVars, coVars, usageVars, root, view>>

\* one getConversationStream call at any offset, on a log that does not change
streamCall(fromOffset, ok) ==
    /\ reader.pc = "idle"
    /\ streamResult' =
          getConversationStreamResult(found, FileSize(log), log, fromOffset, ok)
    /\ reader' = [reader EXCEPT !.pc = "returned"]
    /\ UNCHANGED <<otherVars, log, found, fullResult, writer>>

\* one getConversation call; its caller then tails the log from offset 0
getConversationRun(ok) ==
    /\ reader.pc = "idle"
    /\ fullResult' = getConversationResult(found, log, ok)
    /\ reader' = [reader EXCEPT !.pc = IF ok THEN "tailing" ELSE "returned"]
    /\ UNCHANGED <<otherVars, log, found, streamResult, writer>>

\* storage.ts:548-563: the tailing client calls getConversationStream at its
\* offset; the call finds the path and stats the file
streamStat ==
    /\ reader.pc = "tailing"
    /\ reader' = [reader EXCEPT !.pc = "opened", !.fileSize = FileSize(log)]
    /\ writer' = [writer EXCEPT !.grown = FALSE]
    /\ UNCHANGED <<otherVars, log, found, fullResult, streamResult>>

\* storage.ts:565-598: the call reads the file as it is now and returns; the
\* client keeps the messages and the offset
streamRead ==
    /\ reader.pc = "opened"
    /\ LET r == getConversationStreamResult(found, reader.fileSize, log,
                                            reader.offset, TRUE)
           stuck == r.messages = <<>> /\ r.nextOffset = reader.offset
                        /\ reader.offset < reader.fileSize
       IN /\ streamResult' = r
          /\ reader' = [reader EXCEPT
                          !.pc = "tailing",
                          !.offset = r.nextOffset,
                          !.received = @ \o r.messages,
                          !.stopped = (r.nextOffset = reader.offset),
                          !.blocked = stuck,
                          !.wasBlocked = @ \/ stuck]
    /\ UNCHANGED <<otherVars, log, found, fullResult, writer>>

NextStore ==
    \/ \E fromOffset \in 0..(FileSize(log) + 1), ok \in BOOLEAN :
          streamCall(fromOffset, ok)
    \/ \E ok \in BOOLEAN : getConversationRun(ok)
    \/ streamStat
    \/ streamRead

SpecStore == InitStore /\ [][NextStore]_vars

-----------------------------------------------------------------------------
(* Properties of the full read *)

IsTranscriptMessage(m) == m.type \in {"user", "assistant"}
IsSummaryLine(line) == line.kind = "summary"
MessagesOf(lines) == [i \in 1..Len(lines) |-> Message(lines[i])]

\* the user and assistant messages of a log, in file order
TranscriptOf(lines) == MessagesOf(SelectSeq(lines, IsTranscript))
SummariesOf(lines) == MessagesOf(SelectSeq(lines, IsSummaryLine))
Range(seq) == { seq[i] : i \in 1..Len(seq) }
FullReadDone == fullResult.done /\ fullResult.ok /\ found

\* C11: a full read returns the user and assistant messages of the file in file
\* order; when the file holds a summary line, wherever it stands, the result
\* starts with a summary, and every summary of the file comes once, ahead of all
\* user and assistant messages.
C11_FullReadOrder ==
    FullReadDone =>
        LET r == fullResult.messages
            k == Len(SummariesOf(log))
        IN /\ SelectSeq(r, IsTranscriptMessage) = TranscriptOf(log)
           /\ Len(r) = k + Len(TranscriptOf(log))
           /\ { r[i] : i \in 1..k } = Range(SummariesOf(log))
           /\ SubSeq(r, k + 1, Len(r)) = TranscriptOf(log)
           /\ k > 0 => r[1].type = "summary"

\* the summary is the last line of the file, after a user or assistant message,
\* and the first message of the result
C11_Witness ==
    /\ FullReadDone
    /\ Len(log) >= 2
    /\ log[Len(log)].kind = "summary"
    /\ TranscriptOf(log) # <<>>
    /\ fullResult.messages[1] = Message(log[Len(log)])

IsWellFormed(line) == line.kind # "bad"

\* C12: a full read skips each line that fails to parse on its own: the result
\* holds every user and assistant line of the file, before and after such a
\* line, and equals the full read of the file without its malformed lines.
C12_MalformedSkipped ==
    FullReadDone =>
        /\ Range(TranscriptOf(log)) \subseteq Range(fullResult.messages)
        /\ fullResult.messages =
              getConversationResult(TRUE, SelectSeq(log, IsWellFormed), TRUE).messages

\* a malformed line stands between two messages that are both returned
C12_Witness ==
    /\ FullReadDone
    /\ Len(log) = 3
    /\ IsTranscript(log[1]) /\ log[2].kind = "bad" /\ IsTranscript(log[3])
    /\ fullResult.messages = <<Message(log[1]), Message(log[3])>>

-----------------------------------------------------------------------------
(* Properties of one tail read of a log that does not change *)

\* the offsets at which a line of the log starts, and its end
LineBoundaries(lines) == { LineStart(lines, i) : i \in 1..(Len(lines) + 1) }

\* a call that found the file below its size and read it
StreamReadDone ==
    /\ streamResult.done /\ streamResult.ok /\ found
    /\ streamResult.fromOffset < FileSize(log)

\* the lines the call was given, and those it consumed
Yielded == LinesFrom(log, 1, 0, streamResult.fromOffset)
Taken == SubSeq(Yielded, 1, streamResult.consumed)

\* C13: a tail read from an offset below the file size returns that offset plus
\* the bytes, text and terminator, of the lines it consumed, blank lines included,
\* and the user and assistant messages of those lines in file order; the offset
\* returned is a line boundary of the file.
C13_TailReadResult ==
    StreamReadDone =>
        /\ streamResult.nextOffset = streamResult.fromOffset + FileSize(Taken)
        /\ streamResult.messages = TranscriptOf(Taken)
        /\ streamResult.nextOffset \in LineBoundaries(log)

Stops(line) == ~IsBlank(line) /\ ~Parses(line)
FirstMalformed(lines) ==
    CHOOSE j \in 1..Len(lines) : Stops(lines[j]) /\ \A i \in 1..(j - 1) : ~Stops(lines[i])

\* C14: a tail read stops at the first line that fails to parse: it returns the
\* user and assistant messages of the lines before it and no other, the offset
\* it returns is the offset at which that line starts, and a call at the offset
\* returned is given that same line first.
C14_StopsAtMalformed ==
    (StreamReadDone /\ \E j \in 1..Len(Yielded) : Stops(Yielded[j])) =>
        LET j == FirstMalformed(Yielded)
            before == SubSeq(Yielded, 1, j - 1)
        IN /\ streamResult.messages = TranscriptOf(before)
           /\ streamResult.nextOffset = streamResult.fromOffset + FileSize(before)
           /\ LinesFrom(log, 1, 0, streamResult.nextOffset) # <<>>
           /\ LinesFrom(log, 1, 0, streamResult.nextOffset)[1] = Yielded[j]

\* C15: a call that finds the file and starts at or beyond its size returns no
\* messages and the offset it was given.
C15_AtOrBeyondEnd ==
    (streamResult.done /\ found /\ streamResult.fromOffset >= streamResult.fileSize) =>
        /\ streamResult.messages = <<>>
        /\ streamResult.nextOffset = streamResult.fromOffset

\* a call that starts beyond the end of a log that has lines
C15_Witness ==
    /\ streamResult.done /\ streamResult.ok /\ found
    /\ log # <<>>
    /\ streamResult.fromOffset > FileSize(log)
    /\ streamResult.nextOffset = streamResult.fromOffset

\* C16: on every return path of getConversationStream, file found or not, read
\* succeeded or failed, the offset returned is at least the offset given.
C16_OffsetNeverDecreases ==
    streamResult.done => streamResult.nextOffset >= streamResult.fromOffset

\* C17 as stated: for every offset given, the offset returned is at most the
\* size of the file.
C17_OffsetWithinFile ==
    (streamResult.done /\ found) => streamResult.nextOffset <= FileSize(log)

\* C17: for every offset given that is at most the size of the file, the offset
\* returned is at most the size of the file.
C17_OffsetWithinFileFromInside ==
    (streamResult.done /\ found /\ streamResult.fromOffset <= FileSize(log)) =>
        streamResult.nextOffset <= FileSize(log)

\* the last line has no terminator yet and is consumed: the byte counted for its
\* terminator is not returned
C17_Witness ==
    /\ StreamReadDone
    /\ log[Len(log)].term = 0
    /\ streamResult.consumed = Len(Yielded)
    /\ streamResult.nextOffset = FileSize(log)

\* the client has read the log in full and then tailed it from offset 0 until a
\* call returned the offset it was given
TailedToTheEnd ==
    /\ FullReadDone
    /\ reader.pc = "tailing" /\ reader.stopped

\* C18 as stated: for a file with only well-formed lines, the messages of the tail reads
\* from offset 0, each at the offset the last one returned, until the offset
\* stops advancing, are in sequence the messages of one full read of the file.
C18_TailEqualsFull ==
    (TailedToTheEnd /\ \A i \in 1..Len(log) : IsWellFormed(log[i])) =>
        reader.received = fullResult.messages

\* C18: for a file with only well-formed lines, the messages of the tail reads
\* from offset 0, each at the offset the last one returned, until the offset
\* stops advancing, start with the user and assistant messages of one full read
\* of the file, in the same order, and hold no other message; the summaries that
\* the full read returns first are not among them.
C18_TailEqualsTranscriptOfFull ==
    (TailedToTheEnd /\ \A i \in 1..Len(log) : IsWellFormed(log[i])) =>
        LET transcript == SelectSeq(fullResult.messages, IsTranscriptMessage)
        IN /\ Len(reader.received) >= Len(transcript)
           /\ SubSeq(reader.received, 1, Len(transcript)) = transcript
           /\ Range(reader.received) = Range(transcript)

\* a log with a summary after two messages, a blank line between them: the tail
\* reads return the two messages, the full read the summary and the two messages
C18_Witness ==
    /\ TailedToTheEnd
    /\ Len(log) = 3
    /\ IsTranscript(log[1]) /\ IsBlank(log[2]) /\ log[3].kind = "summary"
    /\ reader.received = <<Message(log[1])>>
    /\ fullResult.messages = <<Message(log[3]), Message(log[1])>>

-----------------------------------------------------------------------------
(* A client tailing a log that the external tool is writing *)

NewlineByte == 1    \* the terminator the external tool writes: \n

UserLine == [kind |-> "user", len |-> 2]
BadLine == [kind |-> "bad", len |-> 2]
RepairedLine == [kind |-> "assistant", len |-> 3]
AppendedShapes == { sh \in LineShapes : sh.kind \in {"user", "assistant", "other"} }

\* the logs the client starts on: whole lines, each ended by \n
TailLogs ==
    { <<>>,
      <<Line(UserLine, NewlineByte, 1)>>,
      <<Line(BadLine, NewlineByte, 1)>>,
      <<Line(UserLine, NewlineByte, 1), Line(BadLine, NewlineByte, 2)>>,
      <<Line(BadLine, NewlineByte, 1), Line(UserLine, NewlineByte, 2)>> }

InitTail ==
    /\ history = <<>>
    /\ dirs = <<>>
    /\ sessionCache = NullCache
    /\ resolved = NotResolved
    /\ fileIndex = EmptyIndex /\ building = {} /\ finding = IdleFinding
    /\ findLog = NoFindLog
    /\ CoIdle
    /\ UsageIdle
    /\ found = TRUE
    /\ log \in TailLogs
    /\ fullResult = NoFullResult
    /\ streamResult = NoStreamResult
    /\ reader = [IdleReader EXCEPT !.pc = "tailing"]
    /\ writer = IdleWriter

NextId(lines) == IF lines = <<>> THEN 1 ELSE lines[Len(lines)].id + 1
HasMalformed(lines) == \E i \in 1..Len(lines) : lines[i].kind = "bad"
FirstBadLine(lines) ==
    CHOOSE i \in 1..Len(lines) :
        lines[i].kind = "bad" /\ \A j \in 1..(i - 1) : lines[j].kind # "bad"

\* the external tool appends one complete well-formed line
appendLine(shape) ==
    /\ Len(log) < MaxLines
    /\ log' = Append(log, Line(shape, NewlineByte, NextId(log)))
    /\ writer' = [writer EXCEPT !.appended = @ + 1, !.grown = TRUE]
    /\ UNCHANGED <<otherVars, found, fullResult, streamResult, reader>>

\* the first malformed line is rewritten into a well-formed one
fixLine ==
    /\ HasMalformed(log)
    /\ log' = [log EXCEPT ![FirstBadLine(log)] =
                  Line(RepairedLine, NewlineByte, log[FirstBadLine(log)].id)]
    /\ writer' = [writer EXCEPT !.edited = TRUE]
    /\ UNCHANGED <<otherVars, found, fullResult, streamResult, reader>>

\* the first malformed line is removed from the file
removeLine ==
    /\ HasMalformed(log)
    /\ log' = SubSeq(log, 1, FirstBadLine(log) - 1)
                \o SubSeq(log, FirstBadLine(log) + 1, Len(log))
    /\ writer' = [writer EXCEPT !.edited = TRUE]
    /\ UNCHANGED <<otherVars, found, fullResult, streamResult, reader>>

NextTail ==
    \/ streamStat
    \/ streamRead
    \/ \E shape \in AppendedShapes : appendLine(shape)
    \/ fixLine
    \/ removeLine

SpecTail == InitTail /\ [][NextTail]_vars

NoMessageTwice(messages) ==
    \A i \in 1..Len(messages), j \in 1..Len(messages) :
        i # j => messages[i] # messages[j]

\* C19: a call at an offset where the next line is malformed returns no messages
\* and the same offset; after a client has been held there, whatever is done to
\* that line, no message is returned to it twice.
C19_IdempotentWhileBlocked ==
    /\ (reader.pc = "tailing" /\ reader.blocked) =>
          /\ streamResult.messages = <<>>
          /\ streamResult.nextOffset = streamResult.fromOffset
    /\ reader.wasBlocked => NoMessageTwice(reader.received)

\* C20: while the external tool only appends complete well-formed lines, also
\* between the size check and the read of a call, no line is returned to the
\* tailing client twice and the client's offset is never inside a line.
C20_EachLineOnceUnderAppends ==
    (~writer.edited /\ ~HasMalformed(log)) =>
        /\ NoMessageTwice(reader.received)
        /\ reader.offset \in LineBoundaries(log)

-----------------------------------------------------------------------------
(* Pricing (pricing.ts).  A model identifier is the sequence of the pieces   *)
(* of its string: words, separators, single digits of a version and the      *)
(* eight digits of a date.  Money is counted in hundredths of a dollar per   *)
(* million tokens for rates, hundredths for multipliers, tokens in units of  *)
(* 10,000 tokens, so that every cost is a whole number of micro-dollars.     *)

NoModel == <<"undefined">>      \* the model argument is absent
NoTokens == -1                  \* an optional field of a usage record is absent
PerMillion == 100               \* 1,000,000 tokens, in units of 10,000 tokens

\* the keys of MODEL_PRICING
KeyOpus45 == <<"claude", "-", "opus", "-", "4", "-", "5", "-", "20251101">>
KeyOpus4 == <<"claude", "-", "opus", "-", "4", "-", "20250514">>
KeySonnet45 == <<"claude", "-", "sonnet", "-", "4", "-", "5", "-", "20241022">>
KeySonnet4 == <<"claude", "-", "sonnet", "-", "4", "-", "20250514">>
KeyHaiku45 == <<"claude", "-", "haiku", "-", "4", "-", "5", "-", "20251101">>
KeyHaiku35 == <<"claude", "-", "3", "-", "5", "-", "haiku", "-", "20241022">>
KeyHaiku3 == <<"claude", "-", "3", "-", "haiku", "-", "20240307">>
KeySonnet35 == <<"claude", "-", "3", "-", "5", "-", "sonnet", "-", "20241022">>
KeySonnet35v1 == <<"claude", "-", "3", "-", "5", "-", "sonnet", "-", "20240620">>

TableKeys == {KeyOpus45, KeyOpus4, KeySonnet45, KeySonnet4, KeyHaiku45,
              KeyHaiku35, KeyHaiku3, KeySonnet35, KeySonnet35v1}

ModelPricing(entry, input, output) ==
    [entry |-> entry, inputPerMillion |-> input, outputPerMillion |-> output,
     cacheWriteMultiplier |-> 125, cacheReadMultiplier |-> 10]

MODEL_PRICING(key) ==
    CASE key = KeyOpus45 -> ModelPricing(key, 500, 2500)
      [] key = KeyOpus4 -> ModelPricing(key, 1500, 7500)
      [] key = KeySonnet45 -> ModelPricing(key, 300, 1500)
      [] key = KeySonnet4 -> ModelPricing(key, 300, 1500)
      [] key = KeyHaiku45 -> ModelPricing(key, 100, 500)
      [] key = KeyHaiku35 -> ModelPricing(key, 80, 400)
      [] key = KeyHaiku3 -> ModelPricing(key, 25, 125)
      [] key = KeySonnet35 -> ModelPricing(key, 300, 1500)
      [] key = KeySonnet35v1 -> ModelPricing(key, 300, 1500)

DEFAULT_PRICING == ModelPricing(<<"default">>, 300, 1500)

\* String.prototype.toLowerCase, piece by piece
toLowerCase(model) ==
    [i \in 1..Len(model) |->
        CASE model[i] = "Claude" -> "claude"
          [] model[i] = "Opus" -> "opus"
          [] model[i] = "Sonnet" -> "sonnet"
          [] model[i] = "Haiku" -> "haiku"
          [] OTHER -> model[i]]

\* String.prototype.includes
includes(str, part) ==
    \E i \in 1..(Len(str) - Len(part) + 1) :
        SubSeq(str, i, i + Len(part) - 1) = part

\* !model: the argument is absent or the empty string
IsFalsyModel(model) == model = NoModel \/ model = <<>>

\* the family rules, in the order in which the code tests them
FamilyRules == <<
    [parts |-> {<<"opus", "-", "4", "-", "5">>, <<"opus", "-", "4", ".", "5">>},
     key |-> KeyOpus45, name |-> "Opus 4.5"],
    [parts |-> {<<"opus", "-", "4">>, <<"opus", "4">>},
     key |-> KeyOpus4, name |-> "Opus 4"],
    [parts |-> {<<"sonnet", "-", "4", "-", "5">>, <<"sonnet", "-", "4", ".", "5">>},
     key |-> KeySonnet45, name |-> "Sonnet 4.5"],
    [parts |-> {<<"sonnet", "-", "4">>, <<"sonnet", "4">>},
     key |-> KeySonnet4, name |-> "Sonnet 4"],
    [parts |-> {<<"haiku", "-", "4", "-", "5">>, <<"haiku", "-", "4", ".", "5">>},
     key |-> KeyHaiku45, name |-> "Haiku 4.5"],
    [parts |-> {<<"haiku", "-", "3", "-", "5">>, <<"haiku", "-", "3", ".", "5">>},
     key |-> KeyHaiku35, name |-> "Haiku 3.5"],
    [parts |-> {<<"haiku">>},
     key |-> KeyHaiku3, name |-> "Haiku 3"],
    [parts |-> {<<"sonnet", "-", "3", "-", "5">>, <<"sonnet", "-", "3", ".", "5">>},
     key |-> KeySonnet35, name |-> "Sonnet 3.5"],
    [parts |-> {<<"sonnet">>},
     key |-> KeySonnet4, name |-> "Sonnet"] >>

RuleMatches(rule, modelLower) == \E part \in rule.parts : includes(modelLower, part)

\* the rules from the i-th on: the key of the first one that matches
RECURSIVE FirstRule(_, _)
FirstRule(i, modelLower) ==
    IF i > Len(FamilyRules) THEN 0
    ELSE IF RuleMatches(FamilyRules[i], modelLower) THEN i
    ELSE FirstRule(i + 1, modelLower)

DirectMatch_never(model) == FALSE

\* MODEL_PRICING[model] is an entry
DirectMatch(model) == model \in TableKeys

\* modelLower.includes(a) || modelLower.includes(b)
includesEither(modelLower, a, b) == includes(modelLower, a) \/ includes(modelLower, b)

getModelPricing(model) ==
    IF IsFalsyModel(model) THEN DEFAULT_PRICING
    ELSE IF DirectMatch(model) THEN MODEL_PRICING(model)
    ELSE LET modelLower == toLowerCase(model) IN
        IF includesEither(modelLower, <<"opus", "-", "4", "-", "5">>,
                                      <<"opus", "-", "4", ".", "5">>)
        THEN MODEL_PRICING(KeyOpus45)
        ELSE IF includesEither(modelLower, <<"opus", "-", "4">>, <<"opus", "4">>)
        THEN MODEL_PRICING(KeyOpus4)
        ELSE IF includesEither(modelLower, <<"sonnet", "-", "4", "-", "5">>,
                                           <<"sonnet", "-", "4", ".", "5">>)
        THEN MODEL_PRICING(KeySonnet45)
        ELSE IF includesEither(modelLower, <<"sonnet", "-", "4">>, <<"sonnet", "4">>)
        THEN MODEL_PRICING(KeySonnet4)
        ELSE IF includesEither(modelLower, <<"haiku", "-", "4", "-", "5">>,
                                           <<"haiku", "-", "4", ".", "5">>)
        THEN MODEL_PRICING(KeyHaiku45)
        ELSE IF includesEither(modelLower, <<"haiku", "-", "3", "-", "5">>,
                                           <<"haiku", "-", "3", ".", "5">>)
        THEN MODEL_PRICING(KeyHaiku35)
        ELSE IF includes(modelLower, <<"haiku">>)
        THEN MODEL_PRICING(KeyHaiku3)
        ELSE IF includesEither(modelLower, <<"sonnet", "-", "3", "-", "5">>,
                                           <<"sonnet", "-", "3", ".", "5">>)
        THEN MODEL_PRICING(KeySonnet35)
        ELSE IF includes(modelLower, <<"sonnet">>)
        THEN MODEL_PRICING(KeySonnet4)
        ELSE DEFAULT_PRICING

\* x ? f(x) : 0 on an optional token count
CacheTokens_dropped(tokens) == 0

CacheTokens(tokens) == IF tokens = NoTokens \/ tokens = 0 THEN 0 ELSE tokens

calculateCost(usage, model) ==
    LET pricing == getModelPricing(model)
        inputCost == usage.input_tokens * pricing.inputPerMillion * 100
        outputCost == usage.output_tokens * pricing.outputPerMillion * 100
        cacheWriteCost ==
            CacheTokens(usage.cache_creation_input_tokens)
                * pricing.inputPerMillion * pricing.cacheWriteMultiplier
        cacheReadCost ==
            CacheTokens(usage.cache_read_input_tokens)
                * pricing.inputPerMillion * pricing.cacheReadMultiplier
    IN  inputCost + outputCost + cacheWriteCost + cacheReadCost

\* model.replace(/^claude-/, "").replace(/-\d{8}$/, "")
IsDate(piece) == piece \in {"20251101", "20250514", "20241022", "20240307", "20240620"}

CleanedUp(model) ==
    LET noPrefix == IF Len(model) >= 2 /\ SubSeq(model, 1, 2) = <<"claude", "-">>
                    THEN SubSeq(model, 3, Len(model)) ELSE model
        n == Len(noPrefix)
    IN  IF n >= 2 /\ noPrefix[n - 1] = "-" /\ IsDate(noPrefix[n])
        THEN SubSeq(noPrefix, 1, n - 2) ELSE noPrefix

getModelDisplayName(model) ==
    IF IsFalsyModel(model) THEN <<"Unknown">>
    ELSE LET modelLower == toLowerCase(model) IN
        IF includesEither(modelLower, <<"opus", "-", "4", "-", "5">>,
                                      <<"opus", "-", "4", ".", "5">>)
        THEN <<"Opus 4.5">>
        ELSE IF includesEither(modelLower, <<"opus", "-", "4">>, <<"opus", "4">>)
        THEN <<"Opus 4">>
        ELSE IF includesEither(modelLower, <<"sonnet", "-", "4", "-", "5">>,
                                           <<"sonnet", "-", "4", ".", "5">>)
        THEN <<"Sonnet 4.5">>
        ELSE IF includesEither(modelLower, <<"sonnet", "-", "4">>, <<"sonnet", "4">>)
        THEN <<"Sonnet 4">>
        ELSE IF includesEither(modelLower, <<"haiku", "-", "4", "-", "5">>,
                                           <<"haiku", "-", "4", ".", "5">>)
        THEN <<"Haiku 4.5">>
        ELSE IF includesEither(modelLower, <<"haiku", "-", "3", "-", "5">>,
                                           <<"haiku", "-", "3", ".", "5">>)
        THEN <<"Haiku 3.5">>
        ELSE IF includes(modelLower, <<"haiku">>) THEN <<"Haiku 3">>
        ELSE IF includesEither(modelLower, <<"sonnet", "-", "3", "-", "5">>,
                                           <<"sonnet", "-", "3", ".", "5">>)
        THEN <<"Sonnet 3.5">>
        ELSE IF includes(modelLower, <<"sonnet">>) THEN <<"Sonnet">>
        ELSE IF includes(modelLower, <<"opus">>) THEN <<"Opus">>
        ELSE CleanedUp(model)

(* Calls of the pricing functions on identifiers of every shape *)

Words == {"opus", "sonnet", "haiku", "gpt", "Opus", "Sonnet"}
Versions == {<<>>, <<"3">>, <<"3", "-", "5">>, <<"3", ".", "5">>,
             <<"4">>, <<"4", "-", "5">>, <<"4", ".", "5">>, <<"4", "-", "1">>}
Prefixes == {<<>>, <<"claude", "-">>, <<"Claude", "-">>}
Suffixes == {<<>>, <<"-", "20250514">>, <<"-", "latest">>}

\* "claude-opus-4-5-20250514", "opus-4.5", "haiku"
WordFirst ==
    {pre \o <<w>> \o (IF v = <<>> THEN <<>> ELSE <<"-">> \o v) \o suf :
        pre \in Prefixes, w \in Words, v \in Versions, suf \in Suffixes}

\* "claude-3-5-haiku-latest", "3-opus"
VersionFirst ==
    {pre \o v \o <<"-", w>> \o suf :
        pre \in Prefixes, w \in Words, v \in Versions \ {<<>>}, suf \in Suffixes}

\* "opus4", "sonnet4-5"
Attached == {<<w>> \o v : w \in Words, v \in Versions \ {<<>>}}

ModelIds == TableKeys \cup WordFirst \cup VersionFirst \cup Attached \cup {NoModel, <<>>}

TokenCounts == {0, 1, PerMillion}
Usages ==
    [input_tokens : TokenCounts, output_tokens : {0, 2},
     cache_creation_input_tokens : {NoTokens, 0, 3},
     cache_read_input_tokens : {NoTokens, 5}]

InitPricing ==
    /\ history = <<>>
    /\ dirs = <<>>
    /\ sessionCache = NullCache
    /\ resolved = NotResolved
    /\ fileIndex = EmptyIndex /\ building = {} /\ finding = IdleFinding
    /\ findLog = NoFindLog
    /\ CoIdle
    /\ StoreIdle
    /\ pricingCall \in [done : {FALSE}, model : ModelIds, usage : Usages]
    /\ usageInput = NoUsageInput
    /\ usageResult = NoUsageResult
    /\ root = NoRoot
    /\ view = NoView

\* one call each of getModelPricing, calculateCost and getModelDisplayName
priceModel ==
    /\ ~pricingCall.done
    /\ pricingCall' = [done |-> TRUE, model |-> pricingCall.model,
                       usage |-> pricingCall.usage,
                       pricing |-> getModelPricing(pricingCall.model),
                       cost |-> calculateCost(pricingCall.usage, pricingCall.model),
                       name |-> getModelDisplayName(pricingCall.model)]
    /\ UNCHANGED <<history, dirs, sessionCache, resolved, indexVars, coVars, storeVars,
                   usageInput, usageResult, root, view>>

NextPricing == priceModel

SpecPricing == InitPricing /\ [][NextPricing]_vars

\* every pricing the table and the baseline hold
PricingTiers == {MODEL_PRICING(key) : key \in TableKeys} \cup {DEFAULT_PRICING}

\* the parts that name a version after a family
VersionParts(family) ==
    {<<family, "-", "4", "-", "5">>, <<family, "-", "4", ".", "5">>,
     <<family, "-", "3", "-", "5">>, <<family, "-", "3", ".", "5">>}

\* the entry of the version of a family that an identifier names
VersionEntry(family, modelLower) ==
    IF includesEither(modelLower, <<family, "-", "4", "-", "5">>,
                                  <<family, "-", "4", ".", "5">>)
    THEN CASE family = "opus" -> KeyOpus45
           [] family = "sonnet" -> KeySonnet45
           [] family = "haiku" -> KeyHaiku45
    ELSE CASE family = "sonnet" -> KeySonnet35
           [] family = "haiku" -> KeyHaiku35

C28_CostIsSumOfFour ==
    pricingCall.done =>
        LET usage == pricingCall.usage
            pricing == pricingCall.pricing
            write == IF usage.cache_creation_input_tokens = NoTokens THEN 0
                     ELSE usage.cache_creation_input_tokens
            read == IF usage.cache_read_input_tokens = NoTokens THEN 0
                    ELSE usage.cache_read_input_tokens
        IN  /\ pricingCall.cost =
                  usage.input_tokens * pricing.inputPerMillion * 100
                + usage.output_tokens * pricing.outputPerMillion * 100
                + write * pricing.inputPerMillion * pricing.cacheWriteMultiplier
                + read * pricing.inputPerMillion * pricing.cacheReadMultiplier
            /\ (/\ usage.input_tokens = PerMillion
                /\ usage.output_tokens = 0
                /\ write = 0 /\ read = 0
                /\ pricing.inputPerMillion = 300)
               => pricingCall.cost = 3 * 1000000

C28_Witness ==
    /\ pricingCall.done
    /\ pricingCall.usage.input_tokens = PerMillion
    /\ pricingCall.usage.output_tokens = 0
    /\ pricingCall.usage.cache_creation_input_tokens = NoTokens
    /\ pricingCall.usage.cache_read_input_tokens = NoTokens
    /\ pricingCall.pricing.inputPerMillion = 300
    /\ pricingCall.cost = 3 * 1000000

\* the entries of the table whose family and version a display name names
EntriesNamed(name) ==
    CASE name = <<"Opus 4.5">> -> {KeyOpus45}
      [] name = <<"Opus 4">> -> {KeyOpus4}
      [] name = <<"Sonnet 4.5">> -> {KeySonnet45}
      [] name = <<"Sonnet 4">> -> {KeySonnet4}
      [] name = <<"Haiku 4.5">> -> {KeyHaiku45}
      [] name = <<"Haiku 3.5">> -> {KeyHaiku35}
      [] name = <<"Haiku 3">> -> {KeyHaiku3}
      [] name = <<"Sonnet 3.5">> -> {KeySonnet35, KeySonnet35v1}
      [] OTHER -> {}

\* C29: whenever getModelDisplayName names a family and a version, the rates
\* getModelPricing returns are those of that family and version, also for an
\* identifier that is a key of the pricing table.
C29_NameAndPricingAgree ==
    (pricingCall.done /\ EntriesNamed(pricingCall.name) # {}) =>
        pricingCall.pricing.entry \in EntriesNamed(pricingCall.name)

-----------------------------------------------------------------------------
(* Usage (storage.ts:609-882).  The functions read the session list that     *)
(* getSessions returns and the messages that getConversation returns for a   *)
(* session; both are given here.  Time is counted in units of which          *)
(* DayLength make a day, and a date is the number of its day; the local time *)
(* zone is UTC.  Costs are whole micro-dollars, so sums of costs are exact.   *)

MaxSessions == 2    \* sessions in the list
MaxStamp == 3       \* session timestamps: 1..MaxStamp
MaxDays == 2        \* the days argument of getDailyUsage: 1..MaxDays
DayLength == 2      \* units of time in a day

SessionIds == <<"u1", "u2", "u3", "u4">>
Projects == {"/a", "/b"}

Usage1 == [input_tokens |-> 1, output_tokens |-> 2,
           cache_creation_input_tokens |-> NoTokens,
           cache_read_input_tokens |-> NoTokens]
Usage2 == [input_tokens |-> 3, output_tokens |-> 0,
           cache_creation_input_tokens |-> 1,
           cache_read_input_tokens |-> 5]

\* the messages of a conversation; usage is <<>> when the message carries none,
\* and the timestamps of the messages are their own, not that of the session
UserMessage == [type |-> "user", usage |-> <<>>, model |-> NoModel, timestamp |-> 1]
SummaryMessage == [type |-> "summary", usage |-> <<>>, model |-> NoModel, timestamp |-> 1]
AssistantMessage(usage, model) ==
    [type |-> "assistant", usage |-> usage, model |-> model, timestamp |-> MaxStamp + 5]

Conversations ==
    { <<>>,
      <<SummaryMessage>>,
      <<AssistantMessage(<<>>, KeySonnet4)>>,
      <<AssistantMessage(<<Usage1>>, KeyOpus4), AssistantMessage(<<Usage2>>, KeyHaiku35)>>,
      <<SummaryMessage, UserMessage, AssistantMessage(<<Usage2>>, NoModel)>> }

\* x || 0 on a token count
OrZero(tokens) == IF tokens = NoTokens THEN 0 ELSE tokens

RECURSIVE SumSeq(_)
SumSeq(s) == IF s = <<>> THEN 0 ELSE s[1] + SumSeq(Tail(s))

\* msg.type === "assistant" && msg.message?.usage
HasUsage(msg) == msg.type = "assistant" /\ msg.usage # <<>>

CountsAsMessage_always(msg) == TRUE

\* msg.type === "user" || msg.type === "assistant"
CountsAsMessage(msg) == msg.type \in {"user", "assistant"}

\* the sum over the messages that carry usage of one field of the usage
TokensOf(messages, field) ==
    SumSeq([i \in 1..Len(messages) |->
              IF HasUsage(messages[i]) THEN OrZero(messages[i].usage[1][field]) ELSE 0])

PricedModel_first(messages, i) ==
    LET withModel == {j \in 1..Len(messages) : HasUsage(messages[j])}
    IN  messages[CHOOSE j \in withModel : \A k \in withModel : j <= k].model

\* the model a message is priced at: msg.message.model
PricedModel(messages, i) == messages[i].model

CostOf(messages) ==
    SumSeq([i \in 1..Len(messages) |->
              IF HasUsage(messages[i])
              THEN calculateCost(messages[i].usage[1], PricedModel(messages, i))
              ELSE 0])

MessageCountOf(messages) ==
    Cardinality({i \in 1..Len(messages) : CountsAsMessage(messages[i])})

\* the display name of the last message that carries usage and a model
LastModel(messages) ==
    LET named == {i \in 1..Len(messages) :
                    HasUsage(messages[i]) /\ ~IsFalsyModel(messages[i].model)}
    IN  IF named = {} THEN <<"Unknown">>
        ELSE getModelDisplayName(messages[CHOOSE i \in named : \A j \in named : j <= i].model)

\* storage.ts:645-651: the timestamp of the first or of the last user or assistant
\* message, <<>> for null
MessageAt(messages, last) ==
    LET counted == {i \in 1..Len(messages) : CountsAsMessage(messages[i])}
        pick == CHOOSE i \in counted :
                    \A j \in counted : IF last THEN j <= i ELSE i <= j
    IN  IF counted = {} THEN <<>> ELSE <<messages[pick].timestamp>>

\* getConversation(id) of the usage functions: [] for an id without a log
ConversationOf(input, id) ==
    IF id \in DOMAIN input.conversations THEN input.conversations[id] ELSE <<>>

NoSessionUsage == [isNull |-> TRUE]

getSessionUsage(input, sessionId) ==
    LET messages == ConversationOf(input, sessionId)
    IN  IF Len(messages) = 0 THEN NoSessionUsage
        ELSE [isNull |-> FALSE,
              sessionId |-> sessionId,
              totalInputTokens |-> TokensOf(messages, "input_tokens"),
              totalOutputTokens |-> TokensOf(messages, "output_tokens"),
              cacheCreationTokens |-> TokensOf(messages, "cache_creation_input_tokens"),
              cacheReadTokens |-> TokensOf(messages, "cache_read_input_tokens"),
              messageCount |-> MessageCountOf(messages),
              model |-> LastModel(messages),
              estimatedCost |-> CostOf(messages),
              firstMessageAt |-> MessageAt(messages, FALSE),
              lastMessageAt |-> MessageAt(messages, TRUE)]

\* the options of getUsageSummary; a field is <<>> when absent (or empty)
NoOptions == [project |-> <<>>, start |-> <<>>, end |-> <<>>]

ProjectFilter_none(sessions, options) == sessions

\* storage.ts:707-710
ProjectFilter(sessions, options) ==
    IF options.project # <<>>
    THEN SelectSeq(sessions, LAMBDA s : s.project = options.project[1])
    ELSE sessions

\* storage.ts:713-724; Infinity is above every timestamp
TimeFilter(sessions, options) ==
    IF options.start # <<>> \/ options.end # <<>>
    THEN LET startTime == IF options.start # <<>> THEN options.start[1] ELSE 0
         IN  SelectSeq(sessions, LAMBDA s :
                /\ s.timestamp >= startTime
                /\ options.end # <<>> => s.timestamp <= options.end[1])
    ELSE sessions

\* new Date(timestamp).toISOString().split("T")[0], as the number of the day
DateOf(timestamp) == timestamp \div DayLength

EmptySummary ==
    [totalInputTokens |-> 0, totalOutputTokens |-> 0,
     totalCacheCreationTokens |-> 0, totalCacheReadTokens |-> 0,
     totalEstimatedCost |-> 0, sessionCount |-> 0, messageCount |-> 0,
     byModel |-> <<>>, byDate |-> <<>>, byProject |-> <<>>]

ZeroDate(date) ==
    [date |-> date, inputTokens |-> 0, outputTokens |-> 0, cacheCreationTokens |-> 0,
     cacheReadTokens |-> 0, cost |-> 0, sessionCount |-> 0]

\* a Map or an object used as one: the entries in the order of their insertion
Has(map, key) == \E i \in 1..Len(map) : map[i].key = key
Get(map, key) == map[CHOOSE i \in 1..Len(map) : map[i].key = key].value
Put(map, key, value) ==
    IF Has(map, key)
    THEN [i \in 1..Len(map) |-> IF map[i].key = key THEN [key |-> key, value |-> value]
                                ELSE map[i]]
    ELSE Append(map, [key |-> key, value |-> value])

DateEntry_fresh(byDateMap, date) == ZeroDate(date)

\* byDateMap.get(date) || the all-zero entry
DateEntry(byDateMap, date) ==
    IF Has(byDateMap, date) THEN Get(byDateMap, date) ELSE ZeroDate(date)

\* storage.ts:738-764, the assistant messages with usage from the i-th on
RECURSIVE AggregateByModel(_, _, _)
AggregateByModel(byModel, messages, i) ==
    IF i > Len(messages) THEN byModel
    ELSE IF ~HasUsage(messages[i]) THEN AggregateByModel(byModel, messages, i + 1)
    ELSE LET usage == messages[i].usage[1]
             model == messages[i].model
             cost == calculateCost(usage, model)
             modelName == getModelDisplayName(model)
             old == IF Has(byModel, modelName) THEN Get(byModel, modelName)
                    ELSE [inputTokens |-> 0, outputTokens |-> 0, cost |-> 0, count |-> 0]
             new == [inputTokens |-> old.inputTokens + OrZero(usage.input_tokens),
                     outputTokens |-> old.outputTokens + OrZero(usage.output_tokens),
                     cost |-> old.cost + cost,
                     count |-> old.count + 1]
         IN  AggregateByModel(Put(byModel, modelName, new), messages, i + 1)

SessionCounts_never(sessionMessageCount) == FALSE

\* storage.ts:773: if (sessionMessageCount > 0)
SessionCounts(sessionMessageCount) == sessionMessageCount > 0

\* storage.ts:727-814, one round of the loop over the sessions
ProcessSession(summary, session, messages) ==
    LET sessionInputTokens == TokensOf(messages, "input_tokens")
        sessionOutputTokens == TokensOf(messages, "output_tokens")
        sessionCacheCreationTokens == TokensOf(messages, "cache_creation_input_tokens")
        sessionCacheReadTokens == TokensOf(messages, "cache_read_input_tokens")
        sessionCost == CostOf(messages)
        sessionMessageCount == MessageCountOf(messages)
        perMessage ==
            [summary EXCEPT
                !.totalCacheCreationTokens = @ + sessionCacheCreationTokens,
                !.totalCacheReadTokens = @ + sessionCacheReadTokens,
                !.byModel = AggregateByModel(@, messages, 1)]
        date == DateOf(session.timestamp)
        dateEntry == DateEntry(summary.byDate, date)
        newDate == [date |-> date,
                    inputTokens |-> dateEntry.inputTokens + sessionInputTokens,
                    outputTokens |-> dateEntry.outputTokens + sessionOutputTokens,
                    cacheCreationTokens |->
                        dateEntry.cacheCreationTokens + sessionCacheCreationTokens,
                    cacheReadTokens |-> dateEntry.cacheReadTokens + sessionCacheReadTokens,
                    cost |-> dateEntry.cost + sessionCost,
                    sessionCount |-> dateEntry.sessionCount + 1]
        projectKey == session.project
        old == IF Has(summary.byProject, projectKey) THEN Get(summary.byProject, projectKey)
               ELSE [inputTokens |-> 0, outputTokens |-> 0, cost |-> 0, sessionCount |-> 0]
        newProject == [inputTokens |-> old.inputTokens + sessionInputTokens,
                       outputTokens |-> old.outputTokens + sessionOutputTokens,
                       cost |-> old.cost + sessionCost,
                       sessionCount |-> old.sessionCount + 1]
    IN  IF SessionCounts(sessionMessageCount)
        THEN [perMessage EXCEPT
                !.sessionCount = @ + 1,
                !.messageCount = @ + sessionMessageCount,
                !.totalInputTokens = @ + sessionInputTokens,
                !.totalOutputTokens = @ + sessionOutputTokens,
                !.totalEstimatedCost = @ + sessionCost,
                !.byDate = Put(@, date, newDate),
                !.byProject = Put(@, projectKey, newProject)]
        ELSE perMessage

RECURSIVE ProcessSessions(_, _, _, _)
ProcessSessions(summary, sessions, input, i) ==
    IF i > Len(sessions) THEN summary
    ELSE ProcessSessions(
            ProcessSession(summary, sessions[i], ConversationOf(input, sessions[i].id)),
            sessions, input, i + 1)

SortByDate_unsorted(byDateMap) == [i \in 1..Len(byDateMap) |-> byDateMap[i].value]

\* storage.ts:817-819: the entries of the map, sorted by date
RECURSIVE SortByDate(_)
SortByDate(byDateMap) ==
    IF byDateMap = <<>> THEN <<>>
    ELSE LET first == CHOOSE i \in 1..Len(byDateMap) :
                        \A j \in 1..Len(byDateMap) : byDateMap[i].key <= byDateMap[j].key
             rest == SelectSeq(byDateMap, LAMBDA e : e.key # byDateMap[first].key)
         IN  <<byDateMap[first].value>> \o SortByDate(rest)

getUsageSummaryResult(input, options) ==
    LET filteredSessions == TimeFilter(ProjectFilter(input.sessions, options), options)
        summary == ProcessSessions(EmptySummary, filteredSessions, input, 1)
    IN  [summary EXCEPT !.byDate = SortByDate(@)]

DateLookup_none(byDate, date) == ZeroDate(date)

\* dateMap.get(dateStr) || the all-zero entry
DateLookup(byDate, date) ==
    IF \E i \in 1..Len(byDate) : byDate[i].date = date
    THEN byDate[CHOOSE i \in 1..Len(byDate) : byDate[i].date = date]
    ELSE ZeroDate(date)

\* storage.ts:859-879: while (current <= endDate), a day further each round
RECURSIVE FillDays(_, _, _)
FillDays(byDate, current, endDate) ==
    IF current <= endDate
    THEN <<DateLookup(byDate, DateOf(current))>>
            \o FillDays(byDate, current + DayLength, endDate)
    ELSE <<>>

\* storage.ts:827-882.  endDate and startDate are two readings of the clock, the
\* second one tick later when the clock advanced between them.
getDailyUsage(input, days, now, tick) ==
    LET endDate == now
        startDate == (now + tick) - days * DayLength
        summary == getUsageSummaryResult(input,
                        [project |-> <<>>, start |-> <<startDate>>, end |-> <<endDate>>])
    IN  FillDays(summary.byDate, startDate, endDate)

(* Calls of the usage functions on a given session list *)

Stamps == 1..MaxStamp

\* what getSessions returns: at most MaxSessions sessions, the newest first
SessionLists ==
    UNION { {list \in [1..n -> [id : {SessionIds[k] : k \in 1..MaxSessions},
                                timestamp : Stamps, project : Projects]] :
                /\ \A i \in 1..n : list[i].id = SessionIds[i]
                /\ \A i \in 1..(n - 1) : list[i].timestamp >= list[i + 1].timestamp}
            : n \in 0..MaxSessions }

UsageInputs ==
    UNION { [sessions : {list},
             conversations : [{list[i].id : i \in 1..Len(list)} -> Conversations]]
            : list \in SessionLists }

OptionSets ==
    [project : {<<>>, <<"/a">>}, start : {<<>>, <<2>>}, end : {<<>>, <<2>>}]

InitUsage ==
    /\ history = <<>>
    /\ dirs = <<>>
    /\ sessionCache = NullCache
    /\ resolved = NotResolved
    /\ fileIndex = EmptyIndex /\ building = {} /\ finding = IdleFinding
    /\ findLog = NoFindLog
    /\ CoIdle
    /\ StoreIdle
    /\ pricingCall = NoPricingCall
    /\ usageInput \in UsageInputs
    /\ usageResult = NoUsageResult
    /\ root = NoRoot
    /\ view = NoView

usageSummaryCall(options) ==
    /\ usageResult.op = "none"
    /\ usageResult' = [op |-> "getUsageSummary", options |-> options,
                       summary |-> getUsageSummaryResult(usageInput, options)]
    /\ UNCHANGED <<history, dirs, sessionCache, resolved, indexVars, coVars, storeVars,
                   pricingCall, usageInput, root, view>>

sessionUsageCall(sessionId) ==
    /\ usageResult.op = "none"
    /\ usageResult' = [op |-> "getSessionUsage", sessionId |-> sessionId,
                       usage |-> getSessionUsage(usageInput, sessionId)]
    /\ UNCHANGED <<history, dirs, sessionCache, resolved, indexVars, coVars, storeVars,
                   pricingCall, usageInput, root, view>>

dailyUsageCall(days, now, tick) ==
    /\ usageResult.op = "none"
    /\ usageResult' = [op |-> "getDailyUsage", days |-> days, now |-> now, tick |-> tick,
                       result |-> getDailyUsage(usageInput, days, now, tick)]
    /\ UNCHANGED <<history, dirs, sessionCache, resolved, indexVars, coVars, storeVars,
                   pricingCall, usageInput, root, view>>

NextUsage ==
    \/ \E options \in OptionSets : usageSummaryCall(options)
    \/ \E k \in 1..(MaxSessions + 1) : sessionUsageCall(SessionIds[k])
    \/ \E days \in 1..MaxDays, now \in MaxStamp..(MaxStamp + 1), tick \in {0, 1} :
            dailyUsageCall(days, now, tick)

SpecUsage == InitUsage /\ [][NextUsage]_vars

\* a finished call of getUsageSummary
SummaryDone == usageResult.op = "getUsageSummary"

\* the sum of one field over the buckets of byDate
SumOverDates(byDate, field) == SumSeq([i \in 1..Len(byDate) |-> byDate[i][field]])

SessionUsageDone == usageResult.op = "getSessionUsage" /\ ~usageResult.usage.isNull

\* the cost of the usage of a message at the rates of a pricing
CostAtRates(usage, pricing) ==
      usage.input_tokens * pricing.inputPerMillion * 100
    + usage.output_tokens * pricing.outputPerMillion * 100
    + OrZero(usage.cache_creation_input_tokens)
        * pricing.inputPerMillion * pricing.cacheWriteMultiplier
    + OrZero(usage.cache_read_input_tokens)
        * pricing.inputPerMillion * pricing.cacheReadMultiplier

\* C22: the estimatedCost of getSessionUsage is the sum, over the assistant
\* messages of the session that carry usage, of the cost of the usage of the
\* message at the rates resolved for the model field of that same message.
C22_CostPerMessageModel ==
    SessionUsageDone =>
        LET messages == ConversationOf(usageInput, usageResult.sessionId)
        IN  usageResult.usage.estimatedCost =
                SumSeq([i \in 1..Len(messages) |->
                    IF messages[i].type = "assistant" /\ messages[i].usage # <<>>
                    THEN CostAtRates(messages[i].usage[1], getModelPricing(messages[i].model))
                    ELSE 0])

\* a session with two messages of different models and rates was priced
C22_Witness ==
    /\ SessionUsageDone
    /\ LET messages == ConversationOf(usageInput, usageResult.sessionId)
       IN  /\ Len(messages) = 2
           /\ HasUsage(messages[1]) /\ HasUsage(messages[2])
           /\ getModelPricing(messages[1].model).inputPerMillion
                # getModelPricing(messages[2].model).inputPerMillion
    /\ usageResult.usage.estimatedCost > 0

\* the sessions of the list that satisfy the conditions of a contribution
Contributing(input, options) ==
    {i \in 1..Len(input.sessions) :
        LET session == input.sessions[i]
            messages == ConversationOf(input, session.id)
        IN  /\ \E k \in 1..Len(messages) : messages[k].type \in {"user", "assistant"}
            /\ options.project # <<>> => session.project = options.project[1]
            /\ options.start # <<>> => options.start[1] <= session.timestamp
            /\ options.end # <<>> => session.timestamp <= options.end[1]}

\* C23: a session contributes to the summary of getUsageSummary exactly when it
\* has a user or assistant message, its project is the project filter if one is
\* given, and its own timestamp lies between the bounds of the time range that
\* are given, both included; the counts of sessions and messages, in total, by
\* date and by project, are those of these sessions.
C23_ContributesIffQualifies ==
    SummaryDone =>
        LET summary == usageResult.summary
            sessions == usageInput.sessions
            contributing == Contributing(usageInput, usageResult.options)
            messagesOf(i) == ConversationOf(usageInput, sessions[i].id)
        IN  /\ summary.sessionCount = Cardinality(contributing)
            /\ summary.messageCount =
                SumSeq([i \in 1..Len(sessions) |->
                    IF i \in contributing
                    THEN Cardinality({k \in 1..Len(messagesOf(i)) :
                            messagesOf(i)[k].type \in {"user", "assistant"}})
                    ELSE 0])
            /\ {summary.byDate[k].date : k \in 1..Len(summary.byDate)}
                = {sessions[i].timestamp \div DayLength : i \in contributing}
            /\ \A k \in 1..Len(summary.byDate) :
                summary.byDate[k].sessionCount =
                    Cardinality({i \in contributing :
                        sessions[i].timestamp \div DayLength = summary.byDate[k].date})
            /\ {summary.byProject[k].key : k \in 1..Len(summary.byProject)}
                = {sessions[i].project : i \in contributing}
            /\ \A k \in 1..Len(summary.byProject) :
                summary.byProject[k].value.sessionCount =
                    Cardinality({i \in contributing :
                        sessions[i].project = summary.byProject[k].key})

\* a project filter and both bounds were given; of two sessions with messages,
\* whose messages all lie outside the range, one was counted
C23_Witness ==
    /\ SummaryDone
    /\ usageResult.options.project # <<>>
    /\ usageResult.options.start # <<>>
    /\ usageResult.options.end # <<>>
    /\ Len(usageInput.sessions) = 2
    /\ \A i \in 1..2 :
        LET messages == ConversationOf(usageInput, usageInput.sessions[i].id)
        IN  /\ MessageCountOf(messages) > 0
            /\ \A k \in 1..Len(messages) :
                \/ messages[k].timestamp < usageResult.options.start[1]
                \/ messages[k].timestamp > usageResult.options.end[1]
    /\ usageResult.summary.sessionCount = 1

\* a log that yields no user or assistant message: no file, an empty file, or
\* lines of other types only
YieldsNoMessage(messages) ==
    \A k \in 1..Len(messages) : messages[k].type \notin {"user", "assistant"}

\* the input without the sessions whose logs yield no message
WithoutSilent(input) ==
    [input EXCEPT !.sessions =
        SelectSeq(@, LAMBDA s : ~YieldsNoMessage(ConversationOf(input, s.id)))]

\* C24: a session whose log yields no user or assistant message adds nothing to
\* the summary: getUsageSummary returns the summary it returns for the list
\* without such sessions, and returns the empty summary when no other session
\* passes the filters.
C24_SilentSessionsAddNothing ==
    SummaryDone =>
        /\ usageResult.summary
            = getUsageSummaryResult(WithoutSilent(usageInput), usageResult.options)
        /\ (\A i \in 1..Len(usageInput.sessions) :
                YieldsNoMessage(ConversationOf(usageInput, usageInput.sessions[i].id)))
            => usageResult.summary = EmptySummary

\* a session with a summary line only stood in the list, unfiltered, before one
\* with messages
C24_Witness ==
    /\ SummaryDone
    /\ usageResult.options = NoOptions
    /\ Len(usageInput.sessions) = 2
    /\ ConversationOf(usageInput, usageInput.sessions[1].id) = <<SummaryMessage>>
    /\ usageResult.summary.sessionCount = 1
    /\ Len(usageResult.summary.byDate) = 1
    /\ Len(usageResult.summary.byProject) = 1

\* C25: the byDate array of getUsageSummary is in strictly ascending order of
\* date, so no date appears twice, and every session counted is counted in the
\* bucket of the UTC date of its own timestamp.
C25_ByDateAscending ==
    SummaryDone =>
        LET byDate == usageResult.summary.byDate
            sessions == usageInput.sessions
            counted == Contributing(usageInput, usageResult.options)
        IN  /\ \A k \in 1..(Len(byDate) - 1) : byDate[k].date < byDate[k + 1].date
            /\ \A i \in counted :
                \E k \in 1..Len(byDate) :
                    /\ byDate[k].date = sessions[i].timestamp \div DayLength
                    /\ byDate[k].sessionCount >= 1
            /\ \A k \in 1..Len(byDate) :
                byDate[k].inputTokens =
                    SumSeq([i \in 1..Len(sessions) |->
                        IF i \in counted
                           /\ sessions[i].timestamp \div DayLength = byDate[k].date
                        THEN TokensOf(ConversationOf(usageInput, sessions[i].id),
                                      "input_tokens")
                        ELSE 0])

\* the newer session came first in the list and its date last in byDate
C25_Witness ==
    /\ SummaryDone
    /\ Len(usageInput.sessions) = 2
    /\ Len(usageResult.summary.byDate) = 2
    /\ usageResult.summary.byDate[2].date = usageInput.sessions[1].timestamp \div DayLength
    /\ usageResult.summary.byDate[1].date = usageInput.sessions[2].timestamp \div DayLength
    /\ usageResult.summary.byDate[1].date < usageResult.summary.byDate[2].date

\* a finished call of getDailyUsage
DailyDone == usageResult.op = "getDailyUsage"

\* C26: getDailyUsage(N) returns exactly N entries, whose dates are N
\* consecutive dates in ascending order, the last one the date of today, and
\* the entry of a date without a counted session is all zero.
C26_ExactlyNDaysEndingToday ==
    DailyDone =>
        LET result == usageResult.result
            today == usageResult.now \div DayLength
        IN  /\ Len(result) = usageResult.days
            /\ \A k \in 1..(Len(result) - 1) : result[k + 1].date = result[k].date + 1
            /\ result # <<>> => result[Len(result)].date = today
            /\ \A k \in 1..Len(result) :
                (\A i \in 1..Len(usageInput.sessions) :
                    usageInput.sessions[i].timestamp \div DayLength # result[k].date)
                => result[k] = ZeroDate(result[k].date)

-----------------------------------------------------------------------------
(* Calls on a root directory of which something is missing *)

HistoryOrEmpty_uncaught(exists, entries) == [threw |-> ~exists, entries |-> entries]

\* storage.ts:248-269: readFile of a missing history log throws, and the catch
\* makes the history empty
HistoryOrEmpty(exists, entries) ==
    [threw |-> FALSE, entries |-> IF exists THEN entries ELSE <<>>]

\* storage.ts:402-485: readdir of a missing projects directory throws, and the
\* catch leaves the sessions of the history alone
ProjectsOrEmpty(exists, ds) ==
    [threw |-> FALSE, entries |-> IF exists THEN ds ELSE <<>>]

\* history logs whose entries name their session or leave it to the timestamps
RootHistories ==
    {<<>>, <<HistoryEntry("h1", 1, PathA, "s1")>>, <<HistoryEntry("h1", 2, PathA, NoId)>>,
     <<HistoryEntry("h1", 2, PathA, "s2"), HistoryEntry("h2", 1, PathDotA, NoId)>>}

Roots ==
    {r \in [claudeDir : BOOLEAN, historyLog : BOOLEAN, projectsDir : BOOLEAN,
            called : {FALSE}, rejected : {FALSE}] :
        ~r.claudeDir => (~r.historyLog /\ ~r.projectsDir)}

InitRoot ==
    /\ root \in Roots
    /\ history \in IF root.historyLog THEN RootHistories ELSE {<<>>}
    /\ dirs \in IF root.projectsDir THEN ListDisks ELSE {<<>>}
    /\ sessionCache = NullCache
    /\ resolved = NotResolved
    /\ fileIndex = EmptyIndex /\ building = {} /\ finding = IdleFinding
    /\ findLog = NoFindLog
    /\ CoIdle
    /\ pricingCall = NoPricingCall
    /\ usageInput = NoUsageInput
    /\ usageResult = NoUsageResult
    /\ view = NoView
    /\ found \in IF root.projectsDir THEN BOOLEAN ELSE {FALSE}
    /\ log \in IF found THEN LogsOfLen(1) ELSE {<<>>}
    /\ fullResult = NoFullResult
    /\ streamResult = NoStreamResult
    /\ reader = IdleReader
    /\ writer = IdleWriter

\* storage.ts:365-492: getSessions() on this root
getSessionsOnRoot ==
    /\ ~root.called
    /\ LET loaded == HistoryOrEmpty(root.historyLog, history)
           listed == ProjectsOrEmpty(root.projectsDir, dirs)
           computed == computeSessions(loaded.entries, listed.entries)
           rejected == loaded.threw \/ listed.threw \/ computed.threw
       IN  /\ root' = [root EXCEPT !.called = TRUE, !.rejected = rejected]
           /\ sessionCache' = IF rejected THEN sessionCache
                              ELSE [set |-> TRUE, list |-> computed.list]
    /\ UNCHANGED <<storeVars, usageVars, view, history, dirs, resolved, indexVars, coVars>>

NextRoot ==
    \/ getSessionsOnRoot
    \/ \E ok \in BOOLEAN : getConversationRun(ok)

SpecRoot == InitRoot /\ [][NextRoot]_vars

\* something of the root is missing
SomethingMissing == ~root.claudeDir \/ ~root.historyLog \/ ~root.projectsDir

-----------------------------------------------------------------------------
(* Failures *)

\* what the caller of getConversation or getConversationStream gets to see of a
\* result: the promise resolves with the messages and, for a tail read, the offset
SeenOfFull(result) == [messages |-> result.messages]
SeenOfStream(result) == [messages |-> result.messages, nextOffset |-> result.nextOffset]

\* C31: when reading a session file that was found fails, the caller of
\* getConversation or getConversationStream gets something else than what it
\* gets for an empty conversation read without failure.
C31_ReadFailureSurfaced ==
    /\ (fullResult.done /\ found /\ ~fullResult.ok) =>
        SeenOfFull(fullResult) # SeenOfFull(getConversationResult(TRUE, <<>>, TRUE))
    /\ (streamResult.done /\ found /\ ~streamResult.ok) =>
        SeenOfStream(streamResult) #
            SeenOfStream(getConversationStreamResult(TRUE, 0, <<>>,
                                                     streamResult.fromOffset, TRUE))

\* C32: whatever the history log and the directories hold, a getSessions() call
\* that has finished has resolved, and so has a getUsageSummary() call.
C32_ListingNeverRejects ==
    \A t \in TaskIds :
        (tasks[t].op \in {"getSessions", "getUsageSummary"} /\ tasks[t].pc = "done")
            => tasks[t].result.ok

-----------------------------------------------------------------------------
(* Backfill of project paths, and history entries of one session *)

\* the ids the history claims: the discovery skips their logs
ClaimedIds(entries, ds) ==
    {ResolvesTo(entries[i], ds) : i \in 1..Len(entries)} \ {NoId}

\* the logs the discovery reads: listed, and of an id the history does not claim
DiscoveredLogs(entries, ds) ==
    {p \in ListedLogs(ds) : ds[p[1]].files[p[2]].id \notin ClaimedIds(entries, ds)}

\* the first user message of a log carries a project path
CarriesPath(file) == file.meta.present /\ file.meta.project # EmptyPath

\* C33: a discovered session whose own log carried no project path, while another
\* discovered log of the same directory did, is listed with the project path such
\* a sibling carried and with the last segment of that path as projectName,
\* whatever the order of the files in the directory.  (Of the logs of one id in
\* several directories, the first is the session's.)
C33_ProjectBackfilled ==
    sessionCache.set =>
        \A p \in DiscoveredLogs(history, dirs) :
            LET file == dirs[p[1]].files[p[2]]
                siblings == {q \in DiscoveredLogs(history, dirs) :
                                /\ q[1] = p[1] /\ q # p
                                /\ CarriesPath(dirs[q[1]].files[q[2]])}
                isFirst == \A r \in ListedLogs(dirs) :
                                dirs[r[1]].files[r[2]].id = file.id => p[1] <= r[1]
            IN  (isFirst /\ ~CarriesPath(file) /\ siblings # {}) =>
                    \A k \in PositionsOf(sessionCache.list, file.id) :
                        /\ sessionCache.list[k].project \in
                            {dirs[q[1]].files[q[2]].meta.project : q \in siblings}
                        /\ sessionCache.list[k].projectName =
                            getProjectName(sessionCache.list[k].project)

\* a log without metadata listed before its sibling that carries a path, and
\* the session of the first listed under that path
C33_Witness ==
    /\ sessionCache.set
    /\ history = <<>>
    /\ Len(dirs) >= 1 /\ dirs[1].readable /\ Len(dirs[1].files) = 2
    /\ ~dirs[1].files[1].meta.present
    /\ CarriesPath(dirs[1].files[2])
    /\ \E k \in PositionsOf(sessionCache.list, dirs[1].files[1].id) :
          sessionCache.list[k].project = dirs[1].files[2].meta.project

-----------------------------------------------------------------------------
(* The usage of the sessions one by one, and the summary over them *)

\* the calls of getUsageSummary alone, one per input
NextSummary == \E options \in OptionSets : usageSummaryCall(options)

SpecSummary == InitUsage /\ [][NextSummary]_vars

\* the sum of one field of getSessionUsage over the listed sessions for which it
\* returns a usage
SumOverSessions(input, field) ==
    SumSeq([i \in 1..Len(input.sessions) |->
        LET usage == getSessionUsage(input, input.sessions[i].id)
        IN  IF usage.isNull THEN 0 ELSE usage[field]])

\* C34: without a filter, the totals of the input, output, cache creation and
\* cache read tokens, of the estimated cost and of the messages in the summary of
\* getUsageSummary are the sums of the corresponding fields of getSessionUsage
\* over the listed sessions for which it returns a usage.
C34_SummaryEqualsSessionSums ==
    (SummaryDone /\ usageResult.options = NoOptions) =>
        LET summary == usageResult.summary
        IN  /\ summary.totalInputTokens = SumOverSessions(usageInput, "totalInputTokens")
            /\ summary.totalOutputTokens = SumOverSessions(usageInput, "totalOutputTokens")
            /\ summary.totalCacheCreationTokens
                = SumOverSessions(usageInput, "cacheCreationTokens")
            /\ summary.totalCacheReadTokens = SumOverSessions(usageInput, "cacheReadTokens")
            /\ summary.totalEstimatedCost = SumOverSessions(usageInput, "estimatedCost")
            /\ summary.messageCount = SumOverSessions(usageInput, "messageCount")

\* a session with a summary line only, for which getSessionUsage returns a usage
\* of zeros, beside a session with usage
C34_Witness ==
    /\ SummaryDone
    /\ usageResult.options = NoOptions
    /\ Len(usageInput.sessions) = 2
    /\ ConversationOf(usageInput, usageInput.sessions[2].id) = <<SummaryMessage>>
    /\ ~getSessionUsage(usageInput, usageInput.sessions[2].id).isNull
    /\ usageResult.summary.totalCacheReadTokens > 0
    /\ usageResult.summary.totalEstimatedCost > 0

-----------------------------------------------------------------------------
(* The session table: getSessionsWithUsage (storage.ts:887-943) *)

DefaultLimit == 50

\* the key by which the comparator of a sortBy orders the usages, largest first
SortKey(usage, sortBy) ==
    CASE sortBy = "cost" -> usage.estimatedCost
      [] sortBy = "tokens" -> usage.totalInputTokens + usage.totalOutputTokens
      [] OTHER -> IF usage.lastMessageAt # <<>> THEN usage.lastMessageAt[1] ELSE 0

\* Array.prototype.sort with such a comparator: stable, descending
RECURSIVE InsertUsage(_, _, _)
InsertUsage(sorted, usage, sortBy) ==
    IF sorted = <<>> THEN <<usage>>
    ELSE IF SortKey(Head(sorted), sortBy) >= SortKey(usage, sortBy)
         THEN <<Head(sorted)>> \o InsertUsage(Tail(sorted), usage, sortBy)
         ELSE <<usage>> \o sorted

RECURSIVE SortUsages(_, _, _, _)
SortUsages(usages, sortBy, i, acc) ==
    IF i > Len(usages) THEN acc
    ELSE SortUsages(usages, sortBy, i + 1, InsertUsage(acc, usages[i], sortBy))

\* storage.ts:913-915: if (usage)
HasUsageRecord(usage) == ~usage.isNull

\* storage.ts:910-916: the usages of the sessions from the i-th on
RECURSIVE UsagesFrom(_, _, _, _)
UsagesFrom(input, sessions, i, acc) ==
    IF i > Len(sessions) THEN acc
    ELSE LET usage == getSessionUsage(input, sessions[i].id)
         IN  UsagesFrom(input, sessions, i + 1,
                        IF HasUsageRecord(usage) THEN Append(acc, usage) ELSE acc)

\* Array.prototype.slice(offset, offset + limit)
Slice(seq, from, to) ==
    SubSeq(seq, from + 1, IF to < Len(seq) THEN to ELSE Len(seq))

\* the options of getSessionsWithUsage; a field is <<>> when absent
getSessionsWithUsage(input, options) ==
    LET limit == IF options.limit # <<>> /\ options.limit[1] # 0 THEN options.limit[1]
                 ELSE DefaultLimit
        offset == IF options.offset # <<>> THEN options.offset[1] ELSE 0
        sortBy == IF options.sortBy # <<>> THEN options.sortBy[1] ELSE "date"
        filteredSessions == ProjectFilter(input.sessions, options)
        sessionsWithUsage == SortUsages(UsagesFrom(input, filteredSessions, 1, <<>>),
                                        sortBy, 1, <<>>)
    IN  [sessions |-> Slice(sessionsWithUsage, offset, offset + limit),
         total |-> Len(sessionsWithUsage)]

TableOptions ==
    [project : {<<>>, <<"/a">>}, sortBy : {<<>>, <<"cost">>, <<"tokens">>},
     limit : {<<>>, <<1>>}, offset : {<<>>, <<1>>}]

sessionsWithUsageCall(options) ==
    /\ usageResult.op = "none"
    /\ usageResult' = [op |-> "getSessionsWithUsage", options |-> options,
                       table |-> getSessionsWithUsage(usageInput, options)]
    /\ UNCHANGED <<history, dirs, sessionCache, resolved, indexVars, coVars, storeVars,
                   pricingCall, usageInput, root, view>>

NextTable == \E options \in TableOptions : sessionsWithUsageCall(options)

SpecTable == InitUsage /\ [][NextTable]_vars

TableDone == usageResult.op = "getSessionsWithUsage"

\* C36: for the same project filter, the total of getSessionsWithUsage is the
\* sessionCount of getUsageSummary, also when a listed session has a log with a
\* summary line only.
C36_TableCountsSummarySessions ==
    TableDone =>
        usageResult.table.total =
            getUsageSummaryResult(usageInput,
                [project |-> usageResult.options.project,
                 start |-> <<>>, end |-> <<>>]).sessionCount

-----------------------------------------------------------------------------
(* Several history entries of one session *)

\* the positions of the history entries that resolve to the session id
Claimants(entries, ds, id) == { i \in 1..Len(entries) : ResolvesTo(entries[i], ds) = id }

\* C37: when several history entries resolve to one session id, by naming it or
\* through the modification times, the list holds one session of that id, and its
\* display, timestamp and project are those of the first such entry of the log.
C37_FirstEntryOfAnIdWins ==
    sessionCache.set =>
        \A id \in AllIds :
            LET claimants == Claimants(history, dirs, id)
                first == CHOOSE i \in claimants : \A j \in claimants : i <= j
            IN  Cardinality(claimants) >= 2 =>
                    /\ Cardinality(PositionsOf(sessionCache.list, id)) = 1
                    /\ \A k \in PositionsOf(sessionCache.list, id) :
                          /\ sessionCache.list[k].display = history[first].display
                          /\ sessionCache.list[k].timestamp = history[first].timestamp
                          /\ sessionCache.list[k].project = history[first].project

\* a list computed from a log whose first entry reaches a session through the
\* modification times and whose second entry names the same session, with another
\* timestamp and another project, the log of the session being on disk
C37_Witness ==
    /\ sessionCache.set
    /\ Len(history) = 2
    /\ history[1].sessionId = NoId /\ history[2].sessionId # NoId
    /\ ResolvesTo(history[1], dirs) = history[2].sessionId
    /\ history[1].timestamp # history[2].timestamp
    /\ history[1].project # history[2].project
    /\ \E p \in ListedLogs(dirs) : dirs[p[1]].files[p[2]].id = history[2].sessionId

-----------------------------------------------------------------------------
(* Invalidation while a getSessions() computation is in flight *)

\* the external tool appends an entry to history.jsonl, and the process is told at
\* once: storage.ts:136-139, invalidateHistoryCache()
historyChanged ==
    /\ ~ReactionsRunning
    /\ Len(history) < MaxHistory
    /\ history' = Append(history,
                         HistoryEntry(IF history = <<>> THEN "h1" ELSE "h2",
                                      Len(history) + 1, PathA, "s1"))
    /\ historyCache' = NullHistory
    /\ sessionCache' = NullCache
    /\ UNCHANGED <<storeVars, usageVars, root, view, dirs, resolved, indexVars, pendingRequests,
                   flight, tasks>>

InitInvalidate ==
    /\ history \in {<<>>, <<HistoryEntry("h1", 1, PathB, "s2")>>}
    /\ dirs \in { <<DirEntry(DirA, TRUE, <<LogS1>>)>>,
                  <<DirEntry(DirA, TRUE, <<LogS1, LogS2>>)>> }
    /\ sessionCache = NullCache
    /\ resolved = NotResolved
    /\ fileIndex = EmptyIndex /\ building = {} /\ finding = IdleFinding
    /\ findLog = NoFindLog
    /\ CoIdle
    /\ UsageIdle
    /\ StoreIdle

NextInvalidate ==
    \/ \E t \in TaskIds : getSessions(t)
    \/ \E t \in TaskIds : loadHistoryCache(t)
    \/ \E t \in TaskIds : sessionsComputed(t)
    \/ \E t \in TaskIds : promiseSettled(t)
    \/ invalidateSessionCache
    \/ invalidateHistoryCache
    \/ historyChanged

SpecInvalidate == InitInvalidate /\ [][NextInvalidate]_vars

\* C35: where every change of history.jsonl is followed at once by
\* invalidateHistoryCache(), also while a getSessions() computation is in flight,
\* the list in sessionCache is the list of the files as they are: no list computed
\* from a read made before an invalidation is left in the cache, and a getSessions()
\* call made after the invalidation returns no such list.
C35_InvalidationNeverLost ==
    /\ sessionCache.set => sessionCache.list = computeSessions(history, dirs).list
    /\ \A t \in TaskIds :
          (tasks[t].op = "getSessions" /\ tasks[t].pc = "await"
              /\ flight[t].stage = "returned")
             => flight[t].outcome.list = computeSessions(history, dirs).list

-----------------------------------------------------------------------------
(* Session view of the web client: session-view.tsx *)

MAX_RETRIES == 10
BASE_RETRY_DELAY_MS == 1000
MAX_RETRY_DELAY_MS == 30000

MaxMessages == 4    \* messages a view holds before the stream stops delivering

ViewSessions == {"a", "b"}

\* a message of an event: its uuid, <<>> when the line has none (a summary line)
ViewMessage(uuid) == [uuid |-> <<uuid>>]
NoUuidMessage == [uuid |-> <<>>]

\* the arrays a 'messages' event may carry
Batches ==
    {<<>>, <<ViewMessage("m1")>>, <<ViewMessage("m1"), ViewMessage("m2")>>,
     <<ViewMessage("m2"), ViewMessage("m3")>>, <<ViewMessage("m3"), ViewMessage("m1")>>,
     <<ViewMessage("m2"), ViewMessage("m2")>>, <<NoUuidMessage, ViewMessage("m1")>>}

RECURSIVE PowerOfTwo(_)
PowerOfTwo(k) == IF k = 0 THEN 1 ELSE 2 * PowerOfTwo(k - 1)

\* a delay that doubles without a ceiling
RetryDelay_uncapped(retryCount) == BASE_RETRY_DELAY_MS * PowerOfTwo(retryCount)

\* session-view.tsx:71
RetryDelay(retryCount) ==
    LET doubled == BASE_RETRY_DELAY_MS * PowerOfTwo(retryCount)
    IN  IF doubled < MAX_RETRY_DELAY_MS THEN doubled ELSE MAX_RETRY_DELAY_MS

\* the smallest handle that names no object of the set and is not the one held
FreshHandle(used, held) ==
    CHOOSE h \in 1..(Cardinality(used) + 2) :
        /\ h \notin used \cup {held}
        /\ \A g \in 1..(h - 1) : g \in used \cup {held}

\* the handles of the EventSources and of the timers of a view
Handles == {1, 2, 3}

HandlesOf(objects) == { o.handle : o \in objects }

\* EventSource.close(), clearTimeout(): the object of that handle is gone
Without(objects, handle) == { o \in objects : o.handle # handle }

\* session-view.tsx:33-45 of the connect closure of a sessionId: the EventSource
\* of the ref is closed and a new one is opened and put into the ref
connect(v, sessionId) ==
    IF ~v.mounted THEN v
    ELSE LET closed == IF v.eventSourceRef # 0 THEN Without(v.open, v.eventSourceRef)
                       ELSE v.open
             handle == FreshHandle(HandlesOf(closed), 0)
         IN  [v EXCEPT !.open = closed \cup {[handle |-> handle, sessionId |-> sessionId,
                                             offset |-> v.offset]},
                       !.eventSourceRef = handle]

\* a cleanup that leaves the retry timer running
ClearRetry_kept(pending, retryTimeoutRef) == pending

\* session-view.tsx:89-91
ClearRetry(pending, retryTimeoutRef) ==
    IF retryTimeoutRef # 0 THEN Without(pending, retryTimeoutRef) ELSE pending

\* session-view.tsx:87-95: the cleanup of the effect
Cleanup(v) ==
    [v EXCEPT !.mounted = FALSE,
              !.cancelled = v.retryTimeoutRef \in HandlesOf(v.pending),
              !.pending = ClearRetry(v.pending, v.retryTimeoutRef),
              !.open = IF v.eventSourceRef # 0 THEN Without(v.open, v.eventSourceRef)
                       ELSE v.open]

\* session-view.tsx:78-85: the effect, run for the connect closure of a sessionId
Effect(v, sessionId) ==
    connect([v EXCEPT !.sessionId = sessionId, !.mounted = TRUE, !.loading = TRUE,
                      !.messages = <<>>, !.offset = 0, !.retryCount = 0,
                      !.errors = 0, !.arrived = <<>>, !.last = "effect"],
            sessionId)

\* session-view.tsx:52-53: existingIds holds the uuids of prev that are not falsy,
\* and a message is kept unless existingIds has its uuid
Unique(prev, newMessages) ==
    LET existingIds == { prev[i].uuid : i \in 1..Len(prev) } \ {<<>>}
    IN  SelectSeq(newMessages, LAMBDA m : m.uuid \notin existingIds)

\* the uuids in the order of their first arrival
RECURSIVE FirstArrivals(_, _, _)
FirstArrivals(arrived, newMessages, i) ==
    IF i > Len(newMessages) THEN arrived
    ELSE FirstArrivals(IF newMessages[i].uuid = <<>> \/ newMessages[i].uuid \in Range(arrived)
                       THEN arrived ELSE Append(arrived, newMessages[i].uuid),
                       newMessages, i + 1)

ViewRest ==
    <<history, dirs, sessionCache, resolved, indexVars, coVars, storeVars, usageVars, root>>

\* session-view.tsx:17-31: the component is rendered, its effect has not run
InitView ==
    /\ view \in [phase : {"rendered"}, sessionId : ViewSessions, mounted : {TRUE},
                 loading : {TRUE}, messages : {<<>>}, offset : {0}, retryCount : {0},
                 eventSourceRef : {0}, retryTimeoutRef : {0}, open : {{}}, pending : {{}},
                 errors : {0}, arrived : {<<>>}, last : {"render"}, cancelled : {FALSE}]
    /\ history = <<>>
    /\ dirs = <<>>
    /\ sessionCache = NullCache
    /\ resolved = NotResolved
    /\ fileIndex = EmptyIndex /\ building = {} /\ finding = IdleFinding
    /\ findLog = NoFindLog
    /\ CoIdle
    /\ StoreIdle
    /\ pricingCall = NoPricingCall
    /\ usageInput = NoUsageInput
    /\ usageResult = NoUsageResult
    /\ root = NoRoot

\* session-view.tsx:78-85: the effect runs after the first render
viewMounted ==
    /\ view.phase = "rendered"
    /\ view' = [Effect(view, view.sessionId) EXCEPT !.phase = "mounted"]
    /\ UNCHANGED ViewRest

\* session-view.tsx:76-96: the sessionId prop changes: connect is another closure,
\* the cleanup of the effect runs and then the effect
sessionIdChanged(sessionId) ==
    /\ view.phase = "mounted"
    /\ sessionId # view.sessionId
    /\ view' = Effect(Cleanup(view), sessionId)
    /\ UNCHANGED ViewRest

\* session-view.tsx:87-95: the view is unmounted
viewUnmounted ==
    /\ view.phase = "mounted"
    /\ view' = [Cleanup(view) EXCEPT !.phase = "unmounted", !.last = "cleanup"]
    /\ UNCHANGED ViewRest

\* session-view.tsx:47-60: an open EventSource delivers a 'messages' event
onMessages(handle, newMessages) ==
    /\ handle \in HandlesOf(view.open)
    /\ Len(view.messages) + Len(newMessages) <= MaxMessages
    /\ LET unique == Unique(view.messages, newMessages)
       IN  view' = [view EXCEPT !.retryCount = 0, !.loading = FALSE,
                                !.messages = view.messages \o unique,
                                !.offset = view.offset + Len(unique),
                                !.errors = 0,
                                !.arrived = FirstArrivals(view.arrived, newMessages, 1),
                                !.last = "messages"]
    /\ UNCHANGED ViewRest

\* session-view.tsx:62-75: an open EventSource fails
onerror(eventSource) ==
    /\ eventSource \in HandlesOf(view.open)
    /\ LET source == CHOOSE o \in view.open : o.handle = eventSource
           closed == [view EXCEPT !.open = Without(view.open, source.handle),
                                  !.loading = FALSE, !.errors = view.errors + 1,
                                  !.last = "error"]
           handle == FreshHandle(HandlesOf(view.pending), 0)
       IN  view' = IF ~view.mounted \/ view.retryCount >= MAX_RETRIES THEN closed
                   ELSE [closed EXCEPT
                            !.retryCount = view.retryCount + 1,
                            !.pending = view.pending \cup
                                {[handle |-> handle, sessionId |-> source.sessionId,
                                  delay |-> RetryDelay(view.retryCount)]},
                            !.retryTimeoutRef = handle]
    /\ UNCHANGED ViewRest

\* session-view.tsx:73: the retry timer fires and calls the connect that set it
retryTimeout(handle) ==
    /\ handle \in HandlesOf(view.pending)
    /\ LET timer == CHOOSE o \in view.pending : o.handle = handle
       IN  view' = [connect([view EXCEPT !.pending = Without(view.pending, timer.handle)],
                            timer.sessionId)
                    EXCEPT !.last = "retry"]
    /\ UNCHANGED ViewRest

NextView ==
    \/ viewMounted
    \/ \E sessionId \in ViewSessions : sessionIdChanged(sessionId)
    \/ viewUnmounted
    \/ \E handle \in Handles, newMessages \in Batches : onMessages(handle, newMessages)
    \/ \E handle \in Handles : onerror(handle)
    \/ \E handle \in Handles : retryTimeout(handle)

SpecView == InitView /\ [][NextView]_vars

-----------------------------------------------------------------------------
(* Properties of the session view *)

\* C38: counting in errors the stream errors since the last 'messages' event (or
\* since the effect ran), the retry counter is that number, up to 10, so a
\* 'messages' event sets it to 0; after an error that is at most the 10th in a row
\* exactly one reconnect is pending, with the delay min(1000 * 2^k, 30000) ms for
\* the k errors before it; after the 11th no reconnect is pending.
C38_ReconnectPolicy ==
    /\ view.retryCount = IF view.errors < 10 THEN view.errors ELSE 10
    /\ view.last = "messages" => view.retryCount = 0
    /\ view.last = "error" =>
          IF view.errors <= 10
          THEN /\ Cardinality(view.pending) = 1
               /\ \A timer \in view.pending :
                     LET doubled == 1000 * PowerOfTwo(view.errors - 1)
                     IN  timer.delay = IF doubled < 30000 THEN doubled ELSE 30000
          ELSE view.pending = {}

\* messages were received, and then eleven errors in a row: the eleventh error
\* has been handled
C38_Witness ==
    /\ view.messages # <<>>
    /\ view.errors = 11
    /\ view.last = "error"

\* C39: at most one EventSource of the view is open; every open EventSource and
\* every pending retry timer belongs to a mounted view and to the sessionId it
\* shows: after an unmount or a change of the sessionId, nothing of the old session
\* is left to open a connection for the old session id.
C39_OneConnectionOfTheSession ==
    /\ Cardinality(view.open) <= 1
    /\ \A source \in view.open :
          view.phase = "mounted" /\ source.sessionId = view.sessionId
    /\ \A timer \in view.pending :
          view.phase = "mounted" /\ timer.sessionId = view.sessionId

\* the sessionId changed while a retry of the old session was pending, and the
\* stream of the new session failed and was opened again
C39_Witness ==
    /\ view.phase = "mounted"
    /\ view.cancelled
    /\ view.last = "retry"
    /\ view.open # {}

\* C40: the uuids of the messages the view holds are, in this order, the uuids
\* that arrived, each once at the place of its first arrival: no uuid is held twice.
C40_NoUuidTwiceInArrivalOrder ==
    view.phase # "none" =>
        LET withUuid == SelectSeq(view.messages, LAMBDA m : m.uuid # <<>>)
        IN  /\ Len(withUuid) = Len(view.arrived)
            /\ \A i \in 1..Len(withUuid) : withUuid[i].uuid = view.arrived[i]

====
